---- MODULE Spec2Model ----
(***************************************************************************)
(* A model of the deployment / rollback engine of FMMLoader26              *)
(* (src/src/fmmloader26.py): manifests, target routing, backup before      *)
(* overwrite, enable / disable of a mod, the conflict index, restore       *)
(* points and rollback, and the apply batch.                               *)
(*                                                                         *)
(* A path is a sequence of names; the live file system is a function from  *)
(* the existing paths to nodes.  Every copy in the engine is shutil.copy2, *)
(* which keeps the modification time of its source, so a file node carries *)
(* its content and its mtime and no clock is needed for files.             *)
(***************************************************************************)
EXTENDS Integers, Sequences, FiniteSets, TLC

VARIABLES
    fs,          \* the live tree: game installation and user-data directory
    mods,        \* the mod store (MODS_DIR): mod name -> manifest and sources
    backups,     \* the backup store (BACKUP_DIR): backup name -> file node
    rps,         \* the restore-point store: name -> [tree, mt]
    target,      \* config target_path (<<>> when not set)
    enabled,     \* config enabled_mods
    load_order,  \* config load_order
    plat,        \* _platform_tag() of the running platform
    now,         \* the wall clock, in seconds
    ap,          \* position of the apply batch in progress
    last,        \* what the last operation did (its result and the state before it)
    ops          \* number of operations started

vars == <<fs, mods, backups, rps, target, enabled, load_order, plat, now, ap, last, ops>>

---------------------------------------------------------------------------
(* Bounds of the model *)

MaxOps == 2
MaxClock == 2
MaxFiles == 2

---------------------------------------------------------------------------
(* Paths and nodes *)

NoPath == <<>>

Dir == [k |-> "dir", c |-> "-", t |-> 0]

File(c, t) == [k |-> "file", c |-> c, t |-> t]

Parent(p) == SubSeq(p, 1, Len(p) - 1)

BaseName(p) == p[Len(p)]

\* p is q or an ancestor of q
IsPrefix(p, q) == Len(p) <= Len(q) /\ SubSeq(q, 1, Len(p)) = p

Prefixes(p) == {SubSeq(p, 1, i) : i \in 1..Len(p)}

Exists(f, p) == p \in DOMAIN f

IsFile(f, p) == p \in DOMAIN f /\ f[p].k = "file"

IsDir(f, p) == p \in DOMAIN f /\ f[p].k = "dir"

\* The tree with node n at path p (added or replaced).
Put(f, p, n) == [q \in DOMAIN f \cup {p} |-> IF q = p THEN n ELSE f[q]]

\* The tree without the paths of set S.
Remove(f, S) == [q \in DOMAIN f \ S |-> f[q]]

\* Path.mkdir(parents=True, exist_ok=True): fails, changing nothing, when p
\* or one of its ancestors exists as a file.
MkdirOk(f, p) == \A q \in Prefixes(p) : ~IsFile(f, q)

MkdirP(f, p) ==
    [q \in DOMAIN f \cup Prefixes(p) |-> IF q \in DOMAIN f THEN f[q] ELSE Dir]

\* The files below directory p (p.rglob("*") filtered by is_file()).
FilesUnder(f, p) == {q \in DOMAIN f : IsPrefix(p, q) /\ q # p /\ f[q].k = "file"}

---------------------------------------------------------------------------
(* Copying *)

\* shutil.copy2(src, dst) of a file node whose name is nm: a dst that is a
\* directory stands for dst/nm; writing fails when the path to write is a
\* directory or its parent is no directory.  Content and mtime are kept.
Copy2Dest(f, nm, dst) == IF IsDir(f, dst) THEN dst \o <<nm>> ELSE dst

Copy2Ok(f, nm, dst) ==
    LET d == Copy2Dest(f, nm, dst)
    IN  ~IsDir(f, d) /\ (Len(d) = 1 \/ IsDir(f, Parent(d)))

Copy2(f, n, nm, dst) == Put(f, Copy2Dest(f, nm, dst), File(n.c, n.t))

\* The orders in which rglob("*") may list the nodes of a source tree (a
\* function from relative paths to nodes, <<>> being the source itself): a
\* directory comes before what it holds, siblings in any order.
RglobOrders(tree) ==
    LET D == DOMAIN tree \ {<<>>}
        n == Cardinality(D)
    IN  {s \in [1..n -> D] :
            /\ \A i, j \in 1..n : i # j => s[i] # s[j]
            /\ \A i, j \in 1..n : (i < j) => ~IsPrefix(s[j], s[i])}

\* The loop of _copy_any over the children of a directory source, from the
\* i-th child of order ord on.  r = [ok, fs, n, w]: whether no step raised,
\* the tree so far, the files copied, the paths written.
RECURSIVE CopyKids(_, _, _, _, _)
CopyKids(r, tree, ord, i, dst) ==
    IF i > Len(ord) \/ ~r.ok THEN r
    ELSE LET rel == ord[i]
             out == dst \o rel
             nm  == BaseName(rel)
         IN  IF tree[rel].k = "dir"
             THEN IF MkdirOk(r.fs, out)
                  THEN CopyKids([r EXCEPT !.fs = MkdirP(r.fs, out)], tree, ord, i + 1, dst)
                  ELSE [r EXCEPT !.ok = FALSE]
             ELSE IF ~MkdirOk(r.fs, Parent(out))
                  THEN [r EXCEPT !.ok = FALSE]
                  ELSE LET f1 == MkdirP(r.fs, Parent(out))
                       IN  IF Copy2Ok(f1, nm, out)
                           THEN CopyKids([ok |-> TRUE,
                                          fs |-> Copy2(f1, tree[rel], nm, out),
                                          n  |-> r.n + 1,
                                          w  |-> r.w \cup {Copy2Dest(f1, nm, out)}],
                                         tree, ord, i + 1, dst)
                           ELSE [ok |-> FALSE, fs |-> f1, n |-> r.n, w |-> r.w]

\* _copy_any returning 1 for a directory as for a file
CopyAny_CountsOne(f, tree, nm, ord, dst) ==
    IF tree[<<>>].k = "dir"
    THEN IF MkdirOk(f, dst)
         THEN [CopyKids([ok |-> TRUE, fs |-> MkdirP(f, dst), n |-> 0, w |-> {}],
                        tree, ord, 1, dst) EXCEPT !.n = 1]
         ELSE [ok |-> FALSE, fs |-> f, n |-> 0, w |-> {}]
    ELSE IF ~MkdirOk(f, Parent(dst))
         THEN [ok |-> FALSE, fs |-> f, n |-> 0, w |-> {}]
         ELSE LET f1 == MkdirP(f, Parent(dst))
              IN  IF Copy2Ok(f1, nm, dst)
                  THEN [ok |-> TRUE, fs |-> Copy2(f1, tree[<<>>], nm, dst), n |-> 1,
                        w |-> {Copy2Dest(f1, nm, dst)}]
                  ELSE [ok |-> FALSE, fs |-> f1, n |-> 0, w |-> {}]

\* _copy_any(src, dst): merge-copy of a source tree named nm into dst.  A
\* raise leaves what was written before it (ok = FALSE, and the count is lost
\* to the caller).
CopyAny(f, tree, nm, ord, dst) ==
    IF tree[<<>>].k = "dir"
    THEN IF MkdirOk(f, dst)
         THEN CopyKids([ok |-> TRUE, fs |-> MkdirP(f, dst), n |-> 0, w |-> {}],
                       tree, ord, 1, dst)
         ELSE [ok |-> FALSE, fs |-> f, n |-> 0, w |-> {}]
    ELSE IF ~MkdirOk(f, Parent(dst))
         THEN [ok |-> FALSE, fs |-> f, n |-> 0, w |-> {}]
         ELSE LET f1 == MkdirP(f, Parent(dst))
              IN  IF Copy2Ok(f1, nm, dst)
                  THEN [ok |-> TRUE, fs |-> Copy2(f1, tree[<<>>], nm, dst), n |-> 1,
                        w |-> {Copy2Dest(f1, nm, dst)}]
                  ELSE [ok |-> FALSE, fs |-> f1, n |-> 0, w |-> {}]

---------------------------------------------------------------------------
(* Strings: the few conversions the engine applies to manifest fields *)

\* s.strip().lower() on the strings of the model.
StripLower(s) ==
    CASE s = "Windows" -> "windows"
      [] s = "Mac"     -> "mac"
      [] s = " "       -> ""
      [] s = "UI"      -> "ui"
      [] s = "Tactics" -> "tactics"
      [] OTHER         -> s

\* s.lower() on the strings of the model.
Lower(s) ==
    CASE s = "Windows" -> "windows"
      [] s = "Mac"     -> "mac"
      [] s = "UI"      -> "ui"
      [] s = "Tactics" -> "tactics"
      [] s = "Kit Pack"  -> "kit pack"
      [] s = "Face Pack" -> "face pack"
      [] s = "Logo Pack" -> "logo pack"
      [] s = "Portrait Pack" -> "portrait pack"
      [] s = "Badge Pack" -> "badge pack"
      [] OTHER         -> s

\* The letters of a file name, for prefix matching (a name not listed is
\* one letter of its own).
Chars(s) ==
    CASE s = "ab" -> <<"a", "b">>
      [] OTHER    -> <<s>>

\* str.startswith
StartsWith(s, pre) == IsPrefix(Chars(pre), Chars(s))

\* sub in s, for the keywords get_target_for_type looks for in a lowercased
\* mod name.
Contains(s, sub) ==
    CASE s = "kit pack"  -> sub \in {"kit"}
      [] s = "face pack" -> sub \in {"face"}
      [] s = "logo pack" -> sub \in {"logo"}
      [] s = "portraits" -> sub \in {"portraits", "portrait"}
      [] s = "badges"    -> sub \in {"badges", "badge"}
      [] s = "portrait pack" -> sub \in {"portrait"}
      [] s = "badge pack"    -> sub \in {"badge"}
      [] OTHER           -> FALSE

---------------------------------------------------------------------------
(* Backups *)

\* hashlib.sha256(str(target_file)).hexdigest()[:10]: a digest of the
\* absolute path, taken to be free of collisions on the paths of the model.
Digest(p) == <<"sha256">> \o p

\* BACKUP_DIR / f"{name}.{h}.bak", with suffix .n when n > 0
BackupName(base, p, n) == [base |-> base, dg |-> Digest(p), n |-> n]

NoBackup == [base |-> "", dg |-> <<>>, n |-> 0]

\* The plain name, taken or not
FreeBackupName_Plain(bk, p, i) == BackupName(BaseName(p), p, 0)

\* The name backup_original picks: the plain name, or the first free .i
RECURSIVE FreeBackupName(_, _, _)
FreeBackupName(bk, p, i) ==
    IF BackupName(BaseName(p), p, i) \notin DOMAIN bk
    THEN BackupName(BaseName(p), p, i)
    ELSE FreeBackupName(bk, p, i + 1)

\* backup_original(target_file): [bk, name]; nothing when the target does
\* not exist.  copy2 keeps the target's content and mtime.
BackupOriginal(f, bk, p) ==
    IF ~Exists(f, p) THEN [bk |-> bk, name |-> NoBackup]
    ELSE LET nm == FreeBackupName(bk, p, 0)
         IN  [bk |-> [b \in DOMAIN bk \cup {nm} |->
                         IF b = nm THEN File(f[p].c, f[p].t) ELSE bk[b]],
              name |-> nm]

\* find_latest_backup_for_filename(filename): BACKUP_DIR.glob(filename + "*")
\* sorted by mtime, newest first; the backups that may come first (the glob
\* lists in no fixed order, and the sort keeps the order of equal mtimes).
LatestBackups(bk, filename) ==
    LET cands == {b \in DOMAIN bk : StartsWith(b.base, filename)}
    IN  {b \in cands : \A o \in cands : bk[o].t <= bk[b].t}

---------------------------------------------------------------------------
(* Manifests and target routing *)

\* fm_user_dir(): the default user-data directory (no custom path is set)
UserDir == <<"U">>

\* read_manifest(mod_dir): "absent" raises FileNotFoundError, "malformed"
\* raises out of json.loads; otherwise the manifest with its defaults.
ManifestRaises(md) == md.mf # "ok"

\* (mf.get("type") or "misc").strip().lower()
ModType(md) == StripLower(IF md.type = "" THEN "misc" ELSE md.type)

\* mf.get("name", mod_name), the name defaulted to the directory's
ModName(m, md) == IF md.name = "" THEN m ELSE md.name

\* get_target_for_type(mod_type, mod_name): [ok, base, fs].  It creates the
\* user-data directories it routes to; ui and bundle give get_target(),
\* which is NoPath when no target is configured.
GraphicsSub(nm) ==
    IF Contains(nm, "kit") \/ Contains(nm, "kits") THEN <<"kits">>
    ELSE IF Contains(nm, "face") \/ Contains(nm, "faces") \/ Contains(nm, "portraits")
         THEN <<"faces">>
    ELSE IF Contains(nm, "logo") \/ Contains(nm, "logos") \/ Contains(nm, "badges")
         THEN <<"logos">>
    ELSE <<>>

RouteMk(f, p) ==
    IF MkdirOk(f, p) THEN [ok |-> TRUE, base |-> p, fs |-> MkdirP(f, p)]
    ELSE [ok |-> FALSE, base |-> p, fs |-> f]

GetTargetForType(f, tgt, mod_type, mod_name) ==
    LET ty == Lower(mod_type)
        nm == Lower(mod_name)
        gb == UserDir \o <<"graphics">>
    IN  IF ty \in {"ui", "bundle"} THEN [ok |-> TRUE, base |-> tgt, fs |-> f]
        ELSE IF ty = "tactics" THEN RouteMk(f, UserDir \o <<"tactics">>)
        ELSE IF ty = "graphics"
             THEN IF MkdirOk(f, gb) THEN RouteMk(MkdirP(f, gb), gb \o GraphicsSub(nm))
                  ELSE [ok |-> FALSE, base |-> gb, fs |-> f]
        ELSE RouteMk(f, UserDir)

\* _is_under answering True for every path
IsUnder_Always(child, root) == TRUE

\* _is_under(child, root)
IsUnder(child, root) == IsPrefix(root, child)

\* resolve_target(base, sub)
ResolveTarget(base, sub) == base \o sub

---------------------------------------------------------------------------
(* enable_mod *)

\* EnableSkips with the comparison turned round: the entries of the running
\* platform are the ones skipped.
EnableSkips_Inverted(e, pl) == StripLower(e.platform) # "" /\ StripLower(e.platform) = pl

\* The platform filter of enable_mod: the entry's tag, stripped and
\* lowercased, is set and is not the running platform.
EnableSkips(e, pl) == StripLower(e.platform) # "" /\ StripLower(e.platform) # pl

\* One pass of the loop over the manifest's files.  st holds the trees and
\* the counters; the log gets one record per entry: what happened, the files
\* copied, the paths written (also those written before a copy raised) and
\* the backup taken.
EnableEntry(st, md, e, pl, base, ords) ==
    LET tgt == ResolveTarget(base, e.target_subpath)
        rec(what, n, w, b) == [what |-> what, n |-> n, w |-> w, b |-> b]
    IN  IF EnableSkips(e, pl)
        THEN [st EXCEPT !.skipped = @ + 1, !.log = Append(@, rec("skip", 0, {}, NoBackup))]
        ELSE IF e.source = "" \/ e.target_subpath = <<>>
        THEN [st EXCEPT !.errors = @ + 1,
                        !.log = Append(@, rec("error/entry", 0, {}, NoBackup))]
        ELSE IF e.source \notin DOMAIN md.src
        THEN [st EXCEPT !.errors = @ + 1,
                        !.log = Append(@, rec("error/missing", 0, {}, NoBackup))]
        ELSE LET bu == IF IsFile(st.fs, tgt) THEN BackupOriginal(st.fs, st.bk, tgt)
                       ELSE [bk |-> st.bk, name |-> NoBackup]
                 nb == IF IsFile(st.fs, tgt) THEN 1 ELSE 0
                 cp == CopyAny(st.fs, md.src[e.source], e.source, ords[e.source], tgt)
             IN  IF cp.ok
                 THEN [st EXCEPT !.fs = cp.fs, !.bk = bu.bk,
                                 !.backed_up = @ + nb, !.wrote = @ + cp.n,
                                 !.log = Append(@, rec("write", cp.n, cp.w, bu.name))]
                 ELSE [st EXCEPT !.fs = cp.fs, !.bk = bu.bk,
                                 !.backed_up = @ + nb, !.errors = @ + 1,
                                 !.log = Append(@, rec("error/copy", 0, cp.w, bu.name))]

\* EnableLoop without the try/except and the continue statements: the
\* loop ends at the first entry in error.
RECURSIVE EnableLoop_StopAtError(_, _, _, _, _, _)
EnableLoop_StopAtError(st, md, i, pl, base, ords) ==
    IF i > Len(md.files) \/ st.errors > 0 THEN st
    ELSE EnableLoop_StopAtError(EnableEntry(st, md, md.files[i], pl, base, ords),
                                md, i + 1, pl, base, ords)

RECURSIVE EnableLoop(_, _, _, _, _, _)
EnableLoop(st, md, i, pl, base, ords) ==
    IF i > Len(md.files) THEN st
    ELSE EnableLoop(EnableEntry(st, md, md.files[i], pl, base, ords),
                    md, i + 1, pl, base, ords)

\* The result of an operation that raised, with the trees it leaves.
Raised(f, bk, why) ==
    [raised |-> TRUE, why |-> why, fs |-> f, bk |-> bk,
     wrote |-> 0, skipped |-> 0, backed_up |-> 0, errors |-> 0, log |-> <<>>]

\* The install root taken from the type alone, install_path not looked at
EnableRoute_NoOverride(f, tgt, m, md) ==
    GetTargetForType(f, tgt, ModType(md), ModName(m, md))

\* The install root enable_mod resolves: the manifest's install_path, or
\* the route of the mod's type and display name.
EnableRoute(f, tgt, m, md) ==
    IF md.install_path # NoPath THEN [ok |-> TRUE, base |-> md.install_path, fs |-> f]
    ELSE GetTargetForType(f, tgt, ModType(md), ModName(m, md))

\* enable_mod(mod_name, log) on live tree f, backup store bk, mod store ms,
\* configured target tgt and platform pl; ords gives rglob's order for each
\* source.  The result holds the trees after the call, the counters of the
\* summary line, and the log.
EnableMod(f, bk, ms, tgt, pl, m, ords) ==
    IF m \notin DOMAIN ms THEN Raised(f, bk, "no mod")
    ELSE IF ManifestRaises(ms[m]) THEN Raised(f, bk, "manifest")
    ELSE LET md == ms[m]
             rt == EnableRoute(f, tgt, m, md)
         IN  IF ~rt.ok THEN Raised(rt.fs, bk, "mkdir")
             ELSE IF rt.base = NoPath THEN Raised(rt.fs, bk, "no target")
             ELSE IF ~Exists(rt.fs, rt.base) /\ ~IsUnder(rt.base, UserDir)
                  THEN Raised(rt.fs, bk, "no target")
             ELSE IF ~Exists(rt.fs, rt.base) /\ ~MkdirOk(rt.fs, rt.base)
                  THEN Raised(rt.fs, bk, "mkdir")
             ELSE LET f1 == IF Exists(rt.fs, rt.base) THEN rt.fs ELSE MkdirP(rt.fs, rt.base)
                  IN  IF md.files = <<>> THEN Raised(f1, bk, "no files")
                      ELSE LET st == EnableLoop(
                                   [fs |-> f1, bk |-> bk, wrote |-> 0, skipped |-> 0,
                                    backed_up |-> 0, errors |-> 0, log |-> <<>>],
                                   md, 1, pl, rt.base, ords)
                           IN  [raised |-> FALSE, why |-> "", fs |-> st.fs, bk |-> st.bk,
                                wrote |-> st.wrote, skipped |-> st.skipped,
                                backed_up |-> st.backed_up, errors |-> st.errors,
                                log |-> st.log]

\* The rglob orders to choose from for the sources of a mod.
SourceOrders(md) ==
    {o \in [DOMAIN md.src -> UNION {RglobOrders(md.src[x]) : x \in DOMAIN md.src}] :
        \A x \in DOMAIN md.src : o[x] \in RglobOrders(md.src[x])}

---------------------------------------------------------------------------
(* disable_mod *)

\* The install root disable_mod resolves: get_target_for_type is called
\* without the mod's name.
DisableRoute(f, tgt, m, md) ==
    IF md.install_path # NoPath THEN [ok |-> TRUE, base |-> md.install_path, fs |-> f]
    ELSE GetTargetForType(f, tgt, ModType(md), "")

\* One pass of the loop of disable_mod.  pick[name] is the backup that
\* find_latest_backup_for_filename(name) returns (NoBackup when none).
DisableEntry(st, e, base, pick) ==
    LET tgt == ResolveTarget(base, e.target_subpath)
        rec(what, b) == [what |-> what, p |-> tgt, b |-> b]
    IN  IF e.target_subpath = <<>>
        THEN [st EXCEPT !.errors = @ + 1, !.log = Append(@, rec("error/entry", NoBackup))]
        ELSE IF ~Exists(st.fs, tgt)
        THEN [st EXCEPT !.absent = @ + 1, !.log = Append(@, rec("absent", NoBackup))]
        ELSE IF IsDir(st.fs, tgt)   \* unlink() of a directory raises
        THEN [st EXCEPT !.errors = @ + 1, !.log = Append(@, rec("error/remove", NoBackup))]
        ELSE LET b == pick[BaseName(tgt)]
             IN  IF b # NoBackup
                 THEN [st EXCEPT !.fs = Put(st.fs, tgt, File(st.bk[b].c, st.bk[b].t)),
                                 !.removed = @ + 1, !.restored = @ + 1,
                                 !.log = Append(@, rec("restore", b))]
                 ELSE [st EXCEPT !.fs = Remove(st.fs, {tgt}),
                                 !.removed = @ + 1, !.no_backup = @ + 1,
                                 !.log = Append(@, rec("no-backup", NoBackup))]

RECURSIVE DisableLoop(_, _, _, _, _)
DisableLoop(st, md, i, base, pick) ==
    IF i > Len(md.files) THEN st
    ELSE DisableLoop(DisableEntry(st, md.files[i], base, pick), md, i + 1, base, pick)

DisableRaised(f, why) ==
    [raised |-> TRUE, why |-> why, fs |-> f, removed |-> 0, restored |-> 0,
     no_backup |-> 0, absent |-> 0, errors |-> 0, log |-> <<>>]

\* disable_mod(mod_name, log)
DisableMod(f, bk, ms, tgt, m, pick) ==
    IF m \notin DOMAIN ms \/ ManifestRaises(ms[m]) THEN DisableRaised(f, "manifest")
    ELSE LET md == ms[m]
             rt == DisableRoute(f, tgt, m, md)
         IN  IF ~rt.ok THEN DisableRaised(rt.fs, "mkdir")
             ELSE IF rt.base = NoPath \/ ~Exists(rt.fs, rt.base)
                  THEN DisableRaised(rt.fs, "no target")
             ELSE IF md.files = <<>>
                  THEN [DisableRaised(rt.fs, "") EXCEPT !.raised = FALSE]
             ELSE LET st == DisableLoop(
                          [fs |-> rt.fs, bk |-> bk, removed |-> 0, restored |-> 0,
                           no_backup |-> 0, absent |-> 0, errors |-> 0, log |-> <<>>],
                          md, 1, rt.base, pick)
                  IN  [raised |-> FALSE, why |-> "", fs |-> st.fs,
                       removed |-> st.removed, restored |-> st.restored,
                       no_backup |-> st.no_backup, absent |-> st.absent,
                       errors |-> st.errors, log |-> st.log]

\* The file names disable_mod may look up, and the answers the backup store
\* may give for each.
TargetNames(md) ==
    {BaseName(md.files[i].target_subpath) :
        i \in {j \in 1..Len(md.files) : md.files[j].target_subpath # <<>>}}

Picks(bk, names) ==
    {pk \in [names -> DOMAIN bk \cup {NoBackup}] :
        \A x \in names : IF LatestBackups(bk, x) = {} THEN pk[x] = NoBackup
                         ELSE pk[x] \in LatestBackups(bk, x)}

---------------------------------------------------------------------------
(* The conflict index *)

\* The platform filter of build_mod_index: the tag as written in the
\* manifest is set and is not the running platform.
IndexSkips(e, pl) == e.platform # "" /\ e.platform # pl

\* The mods of names whose manifests build_mod_index reads; a malformed
\* manifest raises out of it (only FileNotFoundError is caught).
IndexMods(ms, names) == {m \in names : m \in DOMAIN ms /\ ms[m].mf # "absent"}

IndexRaises(ms, names) == \E m \in IndexMods(ms, names) : ms[m].mf = "malformed"

\* The target_subpath values mod m contributes on platform pl.
ModKeys(md, pl) ==
    {md.files[i].target_subpath :
        i \in {j \in 1..Len(md.files) :
                 ~IndexSkips(md.files[j], pl) /\ md.files[j].target_subpath # <<>>}}

\* build_mod_index(names): target_subpath -> the mods touching it
BuildModIndex(ms, names, pl) ==
    LET keys == UNION {ModKeys(ms[m], pl) : m \in IndexMods(ms, names)}
    IN  [t \in keys |-> {m \in IndexMods(ms, names) : t \in ModKeys(ms[m], pl)}]

\* find_conflicts keeping every key of the index (len(ms) > 0)
FindConflicts_EveryKey(ms, names, pl) == BuildModIndex(ms, names, pl)

\* find_conflicts(names): the index filtered to keys with more than one mod
FindConflicts(ms, names, pl) ==
    LET idx == BuildModIndex(ms, names, pl)
    IN  [t \in {k \in DOMAIN idx : Cardinality(idx[k]) > 1} |-> idx[t]]

---------------------------------------------------------------------------
(* Restore points *)

\* cleanup_old_restore_points(keep=10)
KeepRestorePoints == 10

\* The empty tree (a restore-point directory just made).  In a restore
\* point's tree the paths are relative to the restore point.
EmptyTree == [q \in {} |-> Dir]

\* A set of paths as a sequence, shorter paths first.
RECURSIVE ByDepth(_)
ByDepth(S) ==
    IF S = {} THEN <<>>
    ELSE LET x == CHOOSE y \in S : \A z \in S : Len(y) <= Len(z)
         IN  <<x>> \o ByDepth(S \ {x})

\* The subtree of f at p, as a tree of relative paths (<<>> is p itself).
SubTree(f, p) ==
    [rel \in {SubSeq(q, Len(p) + 1, Len(q)) : q \in {x \in DOMAIN f : IsPrefix(p, x)}}
        |-> f[p \o rel]]

\* The loop of shutil.copytree(src, dst, dirs_exist_ok=True) over the nodes
\* below src: an entry that cannot be copied is noted, the others are still
\* copied, and the call raises at its end when any was noted.
RECURSIVE CopyTreeKids(_, _, _, _, _)
CopyTreeKids(r, tree, ord, i, dst) ==
    IF i > Len(ord) THEN r
    ELSE LET rel == ord[i]
             out == dst \o rel
             nm  == BaseName(rel)
             nxt == IF tree[rel].k = "dir"
                    THEN IF IsDir(r.fs, Parent(out)) /\ ~IsFile(r.fs, out)
                         THEN [r EXCEPT !.fs = Put(r.fs, out, Dir)]
                         ELSE [r EXCEPT !.ok = FALSE]
                    ELSE IF IsDir(r.fs, Parent(out)) /\ Copy2Ok(r.fs, nm, out)
                         THEN [r EXCEPT !.fs = Copy2(r.fs, tree[rel], nm, out)]
                         ELSE [r EXCEPT !.ok = FALSE]
         IN  CopyTreeKids(nxt, tree, ord, i + 1, dst)

\* shutil.copytree(src, dst, dirs_exist_ok=True) from tree f into tree g:
\* [ok, fs] with fs the tree g after the call.
CopyTree(g, f, src, dst) ==
    IF ~MkdirOk(g, dst) THEN [ok |-> FALSE, fs |-> g]
    ELSE LET tree == SubTree(f, src)
         IN  CopyTreeKids([ok |-> TRUE, fs |-> MkdirP(g, dst)], tree,
                          ByDepth(DOMAIN tree \ {<<>>}), 1, dst)

\* get_enabled_mods / get_load_order handing back the configured list as
\* it is
ExistingMods_Unfiltered(list, ms) == list

\* get_enabled_mods() / get_load_order(): the configured list without the
\* names that have no directory in the mod store (the list is saved back).
ExistingMods(list, ms) == SelectSeq(list, LAMBDA m : m \in DOMAIN ms)

\* The loop of create_restore_point over the keys of the index: r = [ok,
\* fs] with fs the restore point's tree.
SnapshotKey(r, f, base, rel) ==
    LET src == base \o rel
    IN  IF ~r.ok \/ ~Exists(f, src) THEN r
        ELSE IF ~MkdirOk(r.fs, Parent(rel)) THEN [r EXCEPT !.ok = FALSE]
        ELSE LET g == MkdirP(r.fs, Parent(rel))
             IN  IF IsFile(f, src)
                 THEN IF Copy2Ok(g, BaseName(src), rel)
                      THEN [ok |-> TRUE, fs |-> Copy2(g, f[src], BaseName(src), rel)]
                      ELSE [ok |-> FALSE, fs |-> g]
                 ELSE CopyTree(g, f, src, rel)

RECURSIVE SnapshotKeys(_, _, _, _, _)
SnapshotKeys(r, f, base, keys, i) ==
    IF i > Len(keys) THEN r
    ELSE SnapshotKeys(SnapshotKey(r, f, base, keys[i]), f, base, keys, i + 1)

\* cleanup_old_restore_points(keep): the restore points left, the newest
\* keep of them by the mtime of their directories.
CleanupOldRestorePoints(rp, keep) ==
    IF Cardinality(DOMAIN rp) <= keep THEN rp
    ELSE LET kept == CHOOSE K \in SUBSET DOMAIN rp :
                         /\ Cardinality(K) = keep
                         /\ \A x \in K, y \in DOMAIN rp \ K : rp[y].mt <= rp[x].mt
         IN  [x \in kept |-> rp[x]]

\* create_restore_point(base, log) at time ts, the enabled mods being en:
\* [raised, name, rps].  The directory is named by the time in seconds and
\* made with exist_ok, so a second call within the same second writes into
\* the restore point of the first.
CreateRestorePoint(f, rp, ms, en, pl, base, ts) ==
    LET old  == IF ts \in DOMAIN rp THEN rp[ts].tree ELSE EmptyTree
        with(tree) == [x \in DOMAIN rp \cup {ts} |->
                          IF x = ts THEN [tree |-> tree, mt |-> ts] ELSE rp[x]]
        names == {en[i] : i \in 1..Len(en)}
    IN  IF IndexRaises(ms, names)
        THEN [raised |-> TRUE, name |-> ts, rps |-> with(old)]
        ELSE LET keys == ByDepth(DOMAIN BuildModIndex(ms, names, pl))
                 r == SnapshotKeys([ok |-> TRUE, fs |-> old], f, base, keys, 1)
             IN  IF r.ok
                 THEN [raised |-> FALSE, name |-> ts,
                       rps |-> CleanupOldRestorePoints(with(r.fs), KeepRestorePoints)]
                 ELSE [raised |-> TRUE, name |-> ts, rps |-> with(r.fs)]

\* The files of a restore point's tree ("restore_files")
RestoreFiles(tree) == {rel \in DOMAIN tree : tree[rel].k = "file"}

\* Orphans taken over the whole root: every live file below base that the
\* restore point has no file for, managed or not.
Orphans_WholeRoot(f, tree, managed, base) ==
    {q \in DOMAIN f :
        /\ f[q].k = "file"
        /\ IsPrefix(base, q)
        /\ SubSeq(q, Len(base) + 1, Len(q)) \notin RestoreFiles(tree)}

\* Orphans without the walk through managed directories: only a managed
\* path that is itself a live file is deleted.
Orphans_ManagedFilesOnly(f, tree, managed, base) ==
    {q \in DOMAIN f :
        /\ f[q].k = "file"
        /\ \E mp \in managed : q = base \o mp
        /\ SubSeq(q, Len(base) + 1, Len(q)) \notin RestoreFiles(tree)}

\* Phase one of rollback_to_restore_point: the live files it deletes.  A
\* managed path that is a live file is deleted when the restore point has no
\* file at it; one that is a live directory has every file below it deleted
\* that the restore point has no file for.
Orphans(f, tree, managed, base) ==
    {q \in DOMAIN f :
        /\ f[q].k = "file"
        /\ \E mp \in managed :
              \/ q = base \o mp
              \/ IsDir(f, base \o mp) /\ IsPrefix(base \o mp, q)
        /\ SubSeq(q, Len(base) + 1, Len(q)) \notin RestoreFiles(tree)}

\* ... and the directories it removes afterwards: those below a managed
\* directory that are left without any file (deepest first, so a directory
\* of empty directories goes too).
EmptiedDirs(f, f1, managed, base) ==
    {d \in DOMAIN f1 :
        /\ f1[d].k = "dir"
        /\ \E mp \in managed :
              IsDir(f, base \o mp) /\ IsPrefix(base \o mp, d) /\ d # base \o mp
        /\ FilesUnder(f1, d) = {}}

\* Phase two: every file of the restore point is copied back, parents made
\* as needed; a copy that raises ends the rollback where it stands.
RECURSIVE RestoreLoop(_, _, _, _, _)
RestoreLoop(r, tree, ord, i, base) ==
    IF i > Len(ord) \/ ~r.ok THEN r
    ELSE LET rel == ord[i]
             dst == base \o rel
         IN  IF ~MkdirOk(r.fs, Parent(dst)) THEN [r EXCEPT !.ok = FALSE]
             ELSE LET f1 == MkdirP(r.fs, Parent(dst))
                  IN  IF Copy2Ok(f1, BaseName(rel), dst)
                      THEN RestoreLoop([ok |-> TRUE,
                                        fs |-> Copy2(f1, tree[rel], BaseName(rel), dst),
                                        n  |-> r.n + 1],
                                       tree, ord, i + 1, base)
                      ELSE [ok |-> FALSE, fs |-> f1, n |-> r.n]

\* rollback_to_restore_point without the check that the restore point
\* exists: a missing one counts as an empty one.
RollbackToRestorePoint_Unchecked(f, rp, ms, en, pl, name, base) ==
    LET names   == {en[i] : i \in 1..Len(en)}
        tree    == IF name \in DOMAIN rp THEN rp[name].tree ELSE EmptyTree
        managed == IF IndexRaises(ms, names) THEN {}
                   ELSE DOMAIN BuildModIndex(ms, names, pl)
        del     == Orphans(f, tree, managed, base)
        f1      == Remove(f, del)
        f2      == Remove(f1, EmptiedDirs(f, f1, managed, base))
        r       == RestoreLoop([ok |-> TRUE, fs |-> f2, n |-> 0], tree,
                               ByDepth(RestoreFiles(tree)), 1, base)
    IN  [raised |-> ~r.ok, why |-> IF r.ok THEN "" ELSE "copy",
         fs |-> r.fs, mid |-> f2, deleted |-> del, restored |-> r.n]

\* rollback_to_restore_point(name, base, log), the enabled mods being en:
\* [raised, why, fs, mid, deleted, restored], mid being the live tree between
\* the two phases
RollbackToRestorePoint(f, rp, ms, en, pl, name, base) ==
    LET names == {en[i] : i \in 1..Len(en)}
    IN  IF name \notin DOMAIN rp
        THEN [raised |-> TRUE, why |-> "not found", fs |-> f, mid |-> f,
              deleted |-> {}, restored |-> 0]
        ELSE IF IndexRaises(ms, names)
        THEN [raised |-> TRUE, why |-> "manifest", fs |-> f, mid |-> f,
              deleted |-> {}, restored |-> 0]
        ELSE LET tree    == rp[name].tree
                 managed == DOMAIN BuildModIndex(ms, names, pl)
                 del     == Orphans(f, tree, managed, base)
                 f1      == Remove(f, del)
                 f2      == Remove(f1, EmptiedDirs(f, f1, managed, base))
                 r       == RestoreLoop([ok |-> TRUE, fs |-> f2, n |-> 0], tree,
                                        ByDepth(RestoreFiles(tree)), 1, base)
             IN  [raised |-> ~r.ok, why |-> IF r.ok THEN "" ELSE "copy",
                  fs |-> r.fs, mid |-> f2, deleted |-> del, restored |-> r.n]

---------------------------------------------------------------------------
(* The apply batch *)

\* The apply order taken from the enabled list alone.
ApplyOrder_EnabledOnly(en, order) == en

\* The effective apply order: load_order's entries that are enabled, then
\* the enabled mods that load_order does not hold.
ApplyOrder(en, order) ==
    SelectSeq(order, LAMBDA m : \E i \in 1..Len(en) : en[i] = m)
        \o SelectSeq(en, LAMBDA m : \A i \in 1..Len(order) : order[i] # m)

---------------------------------------------------------------------------
(* The state machine *)

\* The position of apply_enabled_mods_in_order: not running.  While it runs,
\* queue is its list "ordered", rp the restore point it created, done the
\* mods enable_mod was called for and res what each call wrote; the pre_ and
\* _0 fields keep the trees and the lists of before the batch.
Idle == [pc |-> "idle", queue |-> <<>>, rp |-> 0, done |-> <<>>, res |-> <<>>,
         pre_fs |-> EmptyTree, pre_bk |-> EmptyTree, en0 |-> <<>>, lo0 |-> <<>>,
         gui |-> FALSE]

\* What is kept of the operation before the last one.
Strip(l) == [op |-> l.op, mod |-> l.mod, raised |-> l.raised, rp |-> l.rp,
             pre_fs |-> l.pre_fs, pre_bk |-> l.pre_bk]

NoOp == [op |-> "", mod |-> "", raised |-> FALSE, rp |-> 0, res |-> <<>>,
         pre_fs |-> EmptyTree, pre_bk |-> EmptyTree,
         prev |-> [op |-> "", mod |-> "", raised |-> FALSE, rp |-> 0,
                   pre_fs |-> EmptyTree, pre_bk |-> EmptyTree]]

\* The record of an operation on mod m with result r.
OpRecord(op, m, r) ==
    [op |-> op, mod |-> m, raised |-> r.raised, rp |-> 0, res |-> r,
     pre_fs |-> fs, pre_bk |-> backups, prev |-> Strip(last)]

OrdersFor(m) == IF m \in DOMAIN mods THEN SourceOrders(mods[m]) ELSE {<<>>}

PicksFor(m) == IF m \in DOMAIN mods THEN Picks(backups, TargetNames(mods[m])) ELSE {<<>>}

CanStart == ap.pc = "idle" /\ ops < MaxOps

\* A call of enable_mod(m)
OpEnable(m) ==
    /\ CanStart
    /\ \E ords \in OrdersFor(m) :
          LET r == EnableMod(fs, backups, mods, target, plat, m, ords)
          IN  /\ fs' = r.fs
              /\ backups' = r.bk
              /\ last' = OpRecord("enable", m, r)
    /\ ops' = ops + 1
    /\ UNCHANGED <<mods, rps, target, enabled, load_order, plat, now, ap>>

\* A call of disable_mod(m)
OpDisable(m) ==
    /\ CanStart
    /\ \E pick \in PicksFor(m) :
          LET r == DisableMod(fs, backups, mods, target, m, pick)
          IN  /\ fs' = r.fs
              /\ last' = OpRecord("disable", m, r)
    /\ ops' = ops + 1
    /\ UNCHANGED <<mods, backups, rps, target, enabled, load_order, plat, now, ap>>

\* The names the model passes for mods (also of mods the store lacks)
ModNames == {"A", "B", "C"}

\* A call of find_conflicts(names); all = TRUE is names=None, every
\* directory of the mod store.
OpFindConflicts(all, names) ==
    /\ CanStart
    /\ LET nms == IF all THEN DOMAIN mods ELSE names
           r == IF IndexRaises(mods, nms)
                THEN [raised |-> TRUE, names |-> nms, idx |-> EmptyTree,
                      conflicts |-> EmptyTree]
                ELSE [raised |-> FALSE, names |-> nms,
                      idx |-> BuildModIndex(mods, nms, plat),
                      conflicts |-> FindConflicts(mods, nms, plat)]
       IN  last' = OpRecord("conflicts", "", r)
    /\ ops' = ops + 1
    /\ UNCHANGED <<fs, mods, backups, rps, target, enabled, load_order, plat, now, ap>>

\* The result of an apply that ended before its batch: why, and whether it
\* raised.
ApplyEnded(why, raised) ==
    [op |-> "apply", mod |-> "", raised |-> raised, rp |-> 0,
     res |-> [raised |-> raised, why |-> why, called |-> <<>>, results |-> <<>>,
              enabled |-> enabled, load_order |-> load_order],
     pre_fs |-> fs, pre_bk |-> backups, prev |-> Strip(last)]

\* The names find_conflicts is given by on_apply_order and on_conflicts: the
\* enabled mods, or every mod of the store when none is enabled.
GateNames(en) == IF en = <<>> THEN DOMAIN mods ELSE {en[i] : i \in 1..Len(en)}

\* on_apply_order without the conflict check
ApplyGate_NoConflictCheck(gui, running) == IF gui /\ running THEN "fm running" ELSE ""

\* What on_apply_order does before it calls apply_enabled_mods_in_order; ""
\* when it goes on to call it.  A call of apply_enabled_mods_in_order from
\* elsewhere (gui = FALSE) has no gate.
ApplyGate(gui, running) ==
    IF ~gui THEN ""
    ELSE IF IndexRaises(mods, GateNames(ExistingMods(enabled, mods))) THEN "index"
    ELSE IF DOMAIN FindConflicts(mods, GateNames(ExistingMods(enabled, mods)), plat) # {}
         THEN "conflicts"
    ELSE IF running THEN "fm running"
    ELSE ""

\* ApplyBegin with the first enable_mod moved in front of
\* create_restore_point.
ApplyBegin_EnableFirst(gui, running) ==
    /\ CanStart
    /\ ops' = ops + 1
    /\ UNCHANGED <<mods, target, plat, now>>
    /\ LET en   == ExistingMods(enabled, mods)
           lo   == ExistingMods(load_order, mods)
           gate == ApplyGate(gui, running)
           ordered == ApplyOrder(en, lo)
       IN  IF gate # ""
           THEN /\ last' = ApplyEnded(gate, gate = "index")
                /\ enabled' = en
                /\ UNCHANGED <<fs, backups, rps, load_order, ap>>
           ELSE IF target = NoPath \/ ~Exists(fs, target)
           THEN /\ last' = ApplyEnded("no target", TRUE)
                /\ enabled' = IF gui THEN en ELSE enabled
                /\ UNCHANGED <<fs, backups, rps, load_order, ap>>
           ELSE IF ordered = <<>>
           THEN /\ last' = ApplyEnded("nothing enabled", FALSE)
                /\ enabled' = en /\ load_order' = lo
                /\ UNCHANGED <<fs, backups, rps, ap>>
           ELSE \E ords \in OrdersFor(ordered[1]) :
                LET e == EnableMod(fs, backups, mods, target, plat, ordered[1], ords)
                    r == CreateRestorePoint(e.fs, rps, mods, en, plat, target, now)
                IN  /\ rps' = r.rps
                    /\ enabled' = en /\ load_order' = lo
                    /\ fs' = e.fs /\ backups' = e.bk
                    /\ IF r.raised
                       THEN /\ last' = ApplyEnded("restore point", TRUE)
                            /\ UNCHANGED ap
                       ELSE /\ ap' = [pc |-> "enabling", queue |-> ordered, rp |-> r.name,
                                      done |-> <<ordered[1]>>,
                                      res |-> <<[mod |-> ordered[1], raised |-> e.raised,
                                                 w |-> UNION {e.log[i].w : i \in 1..Len(e.log)}]>>,
                                      pre_fs |-> fs, pre_bk |-> backups,
                                      en0 |-> enabled, lo0 |-> load_order, gui |-> gui]
                            /\ UNCHANGED last

\* on_apply_order (gui = TRUE) or a direct call of
\* apply_enabled_mods_in_order, up to and including create_restore_point.
\* running is what is_fm_running() answers.
ApplyBegin(gui, running) ==
    /\ CanStart
    /\ ops' = ops + 1
    /\ UNCHANGED <<fs, mods, backups, target, plat, now>>
    /\ LET en   == ExistingMods(enabled, mods)
           lo   == ExistingMods(load_order, mods)
           gate == ApplyGate(gui, running)
           ordered == ApplyOrder(en, lo)
       IN  IF gate # ""
           THEN /\ last' = ApplyEnded(gate, gate = "index")
                /\ enabled' = en
                /\ UNCHANGED <<rps, load_order, ap>>
           ELSE IF target = NoPath \/ ~Exists(fs, target)
           THEN /\ last' = ApplyEnded("no target", TRUE)
                /\ enabled' = IF gui THEN en ELSE enabled
                /\ UNCHANGED <<rps, load_order, ap>>
           ELSE IF ordered = <<>>
           THEN /\ last' = ApplyEnded("nothing enabled", FALSE)
                /\ enabled' = en /\ load_order' = lo
                /\ UNCHANGED <<rps, ap>>
           ELSE LET r == CreateRestorePoint(fs, rps, mods, en, plat, target, now)
                IN  /\ rps' = r.rps
                    /\ enabled' = en /\ load_order' = lo
                    /\ IF r.raised
                       THEN /\ last' = ApplyEnded("restore point", TRUE)
                            /\ UNCHANGED ap
                       ELSE /\ ap' = [pc |-> "enabling", queue |-> ordered, rp |-> r.name,
                                      done |-> <<>>, res |-> <<>>,
                                      pre_fs |-> fs, pre_bk |-> backups,
                                      en0 |-> enabled, lo0 |-> load_order, gui |-> gui]
                            /\ UNCHANGED last

\* ApplyEnable without the try/except round enable_mod: the loop ends with
\* the first mod enable_mod raises for.
ApplyEnable_StopAtRaise ==
    /\ ap.pc = "enabling"
    /\ Len(ap.done) < Len(ap.queue)
    /\ LET m == ap.queue[Len(ap.done) + 1]
       IN  \E ords \in OrdersFor(m) :
              LET r == EnableMod(fs, backups, mods, target, plat, m, ords)
              IN  /\ fs' = r.fs
                  /\ backups' = r.bk
                  /\ ap' = [ap EXCEPT
                              !.queue = IF r.raised THEN SubSeq(@, 1, Len(ap.done) + 1) ELSE @,
                              !.done = Append(@, m),
                              !.res = Append(@, [mod |-> m, raised |-> r.raised,
                                                 w |-> UNION {r.log[i].w : i \in 1..Len(r.log)}])]
    /\ UNCHANGED <<mods, rps, target, enabled, load_order, plat, now, last, ops>>

\* One pass of the loop of apply_enabled_mods_in_order: enable_mod for the
\* next name of "ordered"; what it raises is logged and the loop goes on.
ApplyEnable ==
    /\ ap.pc = "enabling"
    /\ Len(ap.done) < Len(ap.queue)
    /\ LET m == ap.queue[Len(ap.done) + 1]
       IN  \E ords \in OrdersFor(m) :
              LET r == EnableMod(fs, backups, mods, target, plat, m, ords)
              IN  /\ fs' = r.fs
                  /\ backups' = r.bk
                  /\ ap' = [ap EXCEPT
                              !.done = Append(@, m),
                              !.res = Append(@, [mod |-> m, raised |-> r.raised,
                                                 w |-> UNION {r.log[i].w : i \in 1..Len(r.log)}])]
    /\ UNCHANGED <<mods, rps, target, enabled, load_order, plat, now, last, ops>>

\* The end of apply_enabled_mods_in_order, after the loop.
ApplyEnd ==
    /\ ap.pc = "enabling"
    /\ Len(ap.done) = Len(ap.queue)
    /\ last' = [op |-> "apply", mod |-> "", raised |-> FALSE, rp |-> ap.rp,
                res |-> [raised |-> FALSE, why |-> "", called |-> ap.done,
                         results |-> ap.res, enabled |-> ap.en0,
                         load_order |-> ap.lo0],
                pre_fs |-> ap.pre_fs, pre_bk |-> ap.pre_bk, prev |-> Strip(last)]
    /\ ap' = Idle
    /\ UNCHANGED <<fs, mods, backups, rps, target, enabled, load_order, plat, now, ops>>

\* do_rb of on_rollback with restore point name chosen, and
\* rollback_to_restore_point called with a name there is no restore point
\* for.
OpRollback(name) ==
    /\ CanStart
    /\ ops' = ops + 1
    /\ UNCHANGED <<mods, backups, rps, target, load_order, plat, now, ap>>
    /\ IF target = NoPath \/ ~Exists(fs, target)
       THEN /\ last' = [OpRecord("rollback", "",
                                 [raised |-> FALSE, why |-> "no target", fs |-> fs,
                                  mid |-> fs, deleted |-> {}, restored |-> 0])
                          EXCEPT !.rp = name]
            /\ UNCHANGED <<fs, enabled>>
       ELSE LET en == ExistingMods(enabled, mods)
                r  == RollbackToRestorePoint(fs, rps, mods, en, plat, name, target)
            IN  /\ fs' = r.fs
                /\ enabled' = IF name \in DOMAIN rps THEN en ELSE enabled
                /\ last' = [OpRecord("rollback", "", r) EXCEPT !.rp = name]

\* A second passes.
Tick ==
    /\ now < MaxClock
    /\ now' = now + 1
    /\ UNCHANGED <<fs, mods, backups, rps, target, enabled, load_order, plat, ap, last, ops>>

---------------------------------------------------------------------------
(* The worlds the model starts from *)

\* get_target() when a target is configured: the game's asset directory
GameDir == <<"G">>

\* The sources every mod directory of the model holds: a file "f" and a
\* directory "pack" with one file, whose content is the mod's own.
Sources(c) ==
    [x \in {"f", "pack"} |->
        IF x = "f" THEN [q \in {<<>>} |-> File(c, 2)]
        ELSE [q \in {<<>>, <<"a">>} |-> IF q = <<>> THEN Dir ELSE File(c, 2)]]

Manifest(m, type, name, ip, files) ==
    [mf |-> "ok", type |-> type, name |-> name, install_path |-> ip,
     files |-> files, src |-> Sources(m)]

Entry(src, tgt, tag) == [source |-> src, target_subpath |-> tgt, platform |-> tag]

\* A game directory with two files of the same name, and the user-data
\* directory; a bare game directory with no user-data directory yet.
LiveFull ==
    [q \in {<<"G">>, <<"G", "a">>, <<"G", "d">>, <<"G", "d", "a">>, <<"U">>} |->
        IF q = <<"G", "a">> THEN File("o1", 1)
        ELSE IF q = <<"G", "d", "a">> THEN File("o2", 3)
        ELSE Dir]

LiveBare == [q \in {<<"G">>} |-> Dir]

\* A backup left by an earlier enable of a file named a.
StaleBackups == [b \in {BackupName("a", <<"G", "a">>, 0)} |-> File("old", 4)]

\* The file entries manifests are made of.
Entries ==
    {Entry("f", <<"a">>, t) : t \in {"", "mac", "Windows"}}
    \cup {Entry("f", <<"d", "a">>, ""), Entry("pack", <<"d">>, ""),
          Entry("pack", <<"a">>, ""), Entry("", <<"a">>, ""), Entry("f", <<>>, ""),
          Entry("nosrc", <<"a">>, ""), Entry("", <<"a">>, "mac")}

FileLists == UNION {[1..n -> Entries] : n \in 0..MaxFiles}

\* The manifests of the one mod of the engine's worlds: a ui mod with any
\* list of entries ...
ListManifests == {Manifest("A", "ui", "", NoPath, fl) : fl \in FileLists}

OneFile == <<Entry("f", <<"a">>, "")>>

\* Display names of graphics mods
GraphicsNames ==
    {"Face Pack", "Logo Pack", "portraits", "badges", "Portrait Pack", "Badge Pack"}

\* ... and, with a short list, the other types, an install_path, and a
\* missing or malformed manifest.
RouteManifests ==
    {Manifest("A", ty, nm, NoPath, fl) :
        ty \in {"ui", "", "Tactics", "graphics", "bundle", "skins"}, nm \in {"", "Kit Pack"},
        fl \in {<<>>, OneFile}}
    \cup {Manifest("A", ty, "", ip, OneFile) :
            ty \in {"ui", "Tactics", "graphics"}, ip \in {<<"X">>, <<"U", "x">>, <<"G", "d">>}}
    \cup {Manifest("A", "graphics", nm, NoPath, OneFile) : nm \in GraphicsNames}
    \cup {[Manifest("A", "ui", "", NoPath, OneFile) EXCEPT !.mf = s] :
            s \in {"absent", "malformed"}}

World(pl, f, bk, tgt, ms, en, lo) ==
    [plat |-> pl, fs |-> f, backups |-> bk, target |-> tgt, mods |-> ms,
     enabled |-> en, load_order |-> lo]

EngineWorlds ==
    {World(pl, f, EmptyTree, GameDir, [m \in {"A"} |-> md], <<>>, <<"A">>) :
        pl \in {"windows", "mac"}, f \in {LiveFull, LiveBare}, md \in ListManifests}
    \cup {World("windows", f, bk, tgt, [m \in {"A"} |-> md], <<>>, <<"A">>) :
        f \in {LiveFull, LiveBare}, bk \in {EmptyTree, StaleBackups},
        tgt \in {GameDir, NoPath, <<"X">>}, md \in RouteManifests}

InitWorld(w) ==
    /\ plat = w.plat
    /\ fs = w.fs
    /\ backups = w.backups
    /\ target = w.target
    /\ mods = w.mods
    /\ enabled = w.enabled
    /\ load_order = w.load_order
    /\ rps = EmptyTree
    /\ now = 1
    /\ ap = Idle
    /\ last = NoOp
    /\ ops = 0

InitEngine == \E w \in EngineWorlds : InitWorld(w)

NextEngine ==
    \/ \E m \in {"A"} : OpEnable(m)
    \/ \E m \in {"A"} : OpDisable(m)
    \/ \E names \in SUBSET {"A"} : OpFindConflicts(names = {}, names)

SpecEngine == InitEngine /\ [][NextEngine]_vars

---------------------------------------------------------------------------
(* Two mods, applied and rolled back *)

\* The manifests of a mod of these worlds: ui mods writing a file, merging
\* a directory, both, or tagged for a platform; a mod of the default type,
\* which goes to the user-data directory; a malformed manifest.
PairManifests(m) ==
    {Manifest(m, "ui", "", NoPath, fl) :
        fl \in {<<Entry("f", <<"a">>, "")>>, <<Entry("pack", <<"d">>, "")>>,
                <<Entry("f", <<"d", "a">>, "")>>,
                <<Entry("f", <<"a">>, ""), Entry("pack", <<"d">>, "")>>,
                <<Entry("f", <<"a">>, "Windows")>>, <<Entry("f", <<"a">>, "mac")>>}}
    \cup {Manifest(m, "", "", NoPath, OneFile),
          [Manifest(m, "ui", "", NoPath, OneFile) EXCEPT !.mf = "malformed"]}

PairWorlds ==
    {World("windows", f, EmptyTree, GameDir, [m \in {"A", "B"} |-> IF m = "A" THEN a ELSE b],
           <<"A", "B">>, <<"B", "A">>) :
        f \in {LiveFull, LiveBare}, a \in PairManifests("A"), b \in PairManifests("B")}
    \cup {World("windows", LiveFull, EmptyTree, tgt,
                [m \in {"A", "B"} |-> Manifest(m, "ui", "", NoPath, OneFile)], en, <<"A">>) :
            tgt \in {GameDir, NoPath, <<"X">>}, en \in {<<>>, <<"A">>, <<"A", "C">>}}

Init == \E w \in PairWorlds : InitWorld(w)

Next ==
    \/ \E gui, running \in BOOLEAN : ApplyBegin(gui, running)
    \/ ApplyEnable
    \/ ApplyEnd
    \/ \E name \in 1..MaxClock : OpRollback(name)
    \/ \E names \in {{}, {"A"}, {"A", "B"}} : OpFindConflicts(names = {}, names)
    \/ Tick

Spec == Init /\ [][Next]_vars

---------------------------------------------------------------------------
(* Three mods and their order *)

\* Sequences over S without repetition
Lists(S) ==
    UNION {{s \in [1..n -> S] : \A i, j \in 1..n : i # j => s[i] # s[j]} :
              n \in 0..Cardinality(S)}

\* Each mod writes one file of its own name.
OrderManifest(m) == Manifest(m, "ui", "", NoPath, <<Entry("f", <<m>>, "")>>)

\* A mod enable_mod raises for: its manifest is missing, or lists no files
FailingManifests(m) ==
    {[OrderManifest(m) EXCEPT !.mf = "absent"], [OrderManifest(m) EXCEPT !.files = <<>>]}

OrderWorlds ==
    {World("windows", LiveBare, EmptyTree, GameDir, [m \in S |-> OrderManifest(m)], en, lo) :
        S \in {{"A", "B", "C"}, {"A", "B"}}, en \in Lists(ModNames), lo \in Lists(ModNames)}
    \cup {World("windows", LiveBare, EmptyTree, GameDir,
                [m \in ModNames |-> IF m = "B" THEN bad ELSE OrderManifest(m)], en, lo) :
            bad \in FailingManifests("B"), en \in Lists(ModNames), lo \in Lists(ModNames)}

InitOrder == \E w \in OrderWorlds : InitWorld(w)

NextOrder ==
    \/ \E gui \in BOOLEAN : ApplyBegin(gui, FALSE)
    \/ ApplyEnable
    \/ ApplyEnd

SpecOrder == InitOrder /\ [][NextOrder]_vars

---------------------------------------------------------------------------
(* Claims *)

\* The live paths the entries of mod m name as targets, below the root
\* enable_mod resolves in tree f.
TargetPaths(f, m) ==
    LET md == mods[m]
        base == EnableRoute(f, target, m, md).base
    IN  {ResolveTarget(base, md.files[i].target_subpath) :
            i \in {j \in 1..Len(md.files) : md.files[j].target_subpath # <<>>}}

\* disable_mod(m) returned, right after enable_mod(m) returned
DisabledAfterEnable ==
    /\ last.op = "disable" /\ ~last.raised
    /\ last.prev.op = "enable" /\ last.prev.mod = last.mod /\ ~last.prev.raised

\* C1: after enable_mod(m) and then disable_mod(m), every target file that
\* existed before the enable has exactly its content of then, and every
\* target that did not exist before the enable is absent.
C1_DisableAfterEnableRestores ==
    DisabledAfterEnable =>
        \A p \in TargetPaths(last.prev.pre_fs, last.mod) :
            /\ IsFile(last.prev.pre_fs, p) => IsFile(fs, p) /\ fs[p] = last.prev.pre_fs[p]
            /\ ~Exists(last.prev.pre_fs, p) => ~Exists(fs, p)

\* enable_mod returned normally
Enabled == last.op = "enable" /\ ~last.raised

\* C3: every live file enable_mod overwrites, be the entry's source a file
\* or a directory merged into an existing one, has its content of before
\* the overwrite in a new backup taken for its path.
C3_OverwrittenFilesBackedUp ==
    Enabled =>
        \A i \in 1..Len(last.res.log) : \A p \in last.res.log[i].w :
            IsFile(last.pre_fs, p) =>
                \E b \in DOMAIN backups \ DOMAIN last.pre_bk :
                    b.dg = Digest(p) /\ backups[b] = last.pre_fs[p]

\* C9: when enable_mod raises for a missing manifest, an unresolvable
\* install root or an empty files list, the live tree, with the directories
\* of the user-data tree, and the backup store are as before the call.
C9_PreconditionErrorsNoSideEffect ==
    (last.op = "enable" /\ last.raised
        /\ last.res.why \in {"manifest", "no target", "no files"})
    => fs = last.pre_fs /\ backups = last.pre_bk

\* The entry's platform tag names a platform that is not the running one.
OtherPlatform(e, pl) ==
    StripLower(e.platform) \in {"mac", "windows"} /\ StripLower(e.platform) # pl

RECURSIVE SumCopied(_, _)
SumCopied(log, I) ==
    IF I = {} THEN 0
    ELSE LET i == CHOOSE x \in I : TRUE IN log[i].n + SumCopied(log, I \ {i})

\* C8: an entry tagged for the platform that is not running is never copied
\* by enable_mod (nothing is written or backed up for it), adds nothing to
\* wrote, and contributes no key to the conflict index: every mod the index
\* lists under a key has an entry for that key that is not so tagged.
C8_PlatformFiltering ==
    /\ Enabled =>
          LET files == mods[last.mod].files
              log   == last.res.log
              other == {i \in 1..Len(files) : OtherPlatform(files[i], plat)}
          IN  /\ Len(log) = Len(files)
              /\ \A i \in other :
                    log[i].what = "skip" /\ log[i].w = {} /\ log[i].b = NoBackup
              /\ last.res.wrote = SumCopied(log, (1..Len(files)) \ other)
    /\ (last.op = "conflicts" /\ ~last.raised) =>
          \A t \in DOMAIN last.res.idx : \A m \in last.res.idx[t] :
              \E i \in 1..Len(mods[m].files) :
                  /\ mods[m].files[i].target_subpath = t
                  /\ ~OtherPlatform(mods[m].files[i], plat)

\* C8 happens: enable_mod returned for a manifest with an entry tagged for
\* the other platform, its source and target present, next to an entry
\* that was copied.
C8_Witness ==
    /\ Enabled
    /\ last.res.wrote > 0
    /\ \E i \in 1..Len(mods[last.mod].files) :
          /\ OtherPlatform(mods[last.mod].files[i], plat)
          /\ mods[last.mod].files[i].source \in DOMAIN mods[last.mod].src
          /\ mods[last.mod].files[i].target_subpath # <<>>

ErrorKinds == {"error/entry", "error/missing", "error/copy"}

\* C10: a per-entry error does not stop enable_mod.  Once the loop over the
\* files is entered the call returns normally with one log record per
\* entry; errors is the number of entries in error, each counted once; an
\* entry that passes the platform filter is in error when a field is
\* missing or its source does not exist, and otherwise it is copied unless
\* the copy itself raises.
C10_PerEntryErrorsContinue ==
    last.op = "enable" =>
        /\ last.raised =>
              last.res.why \in {"no mod", "manifest", "mkdir", "no target", "no files"}
        /\ ~last.raised =>
              LET files == mods[last.mod].files
                  log   == last.res.log
                  md    == mods[last.mod]
              IN  /\ Len(log) = Len(files)
                  /\ last.res.errors =
                        Cardinality({i \in 1..Len(log) : log[i].what \in ErrorKinds})
                  /\ \A i \in 1..Len(files) :
                        ~EnableSkips(files[i], plat) =>
                            IF files[i].source = "" \/ files[i].target_subpath = <<>>
                            THEN log[i].what = "error/entry"
                            ELSE IF files[i].source \notin DOMAIN md.src
                            THEN log[i].what = "error/missing"
                            ELSE log[i].what \in {"write", "error/copy"}

\* C10 happens: an entry whose copy raised is followed by an entry that was
\* copied.
C10_Witness ==
    /\ Enabled
    /\ \E i, j \in 1..Len(last.res.log) :
          /\ i < j
          /\ last.res.log[i].what = "error/copy"
          /\ last.res.log[j].what = "write"

\* The names of a list
Names(list) == {list[i] : i \in 1..Len(list)}

\* An apply batch came to its end: the restore point was created and
\* enable_mod was called for every name of the order.
Applied == last.op = "apply" /\ last.rp # 0

\* rollback_to_restore_point returned, right after an apply batch and for
\* the restore point of that batch.
RolledBackAfterApply ==
    /\ last.op = "rollback" /\ ~last.raised /\ last.res.why = ""
    /\ last.prev.op = "apply" /\ last.prev.rp # 0 /\ last.prev.rp = last.rp

\* The live paths the conflict index of the enabled mods stands for: each
\* key below the install root of the mod that declares it.
ManagedLive(f) ==
    UNION {{ResolveTarget(EnableRoute(f, target, m, mods[m]).base, t) :
               t \in ModKeys(mods[m], plat)} :
           m \in IndexMods(mods, Names(enabled))}

\* C2: after a restore point is created, the enabled mods applied and the
\* restore point rolled back to, every file at or below a path of the
\* conflict index has its content of before the apply, and no file that the
\* apply introduced at or below such a path is left.
C2_RestorePointRoundTrip ==
    RolledBackAfterApply =>
        \A p \in ManagedLive(last.prev.pre_fs) :
            /\ \A q \in DOMAIN last.prev.pre_fs :
                  (IsPrefix(p, q) /\ last.prev.pre_fs[q].k = "file")
                      => IsFile(fs, q) /\ fs[q] = last.prev.pre_fs[q]
            /\ \A q \in DOMAIN fs :
                  (IsPrefix(p, q) /\ fs[q].k = "file") => q \in DOMAIN last.prev.pre_fs

InSeq(list, m) == \E i \in 1..Len(list) : list[i] = m

Pos(list, m) == CHOOSE i \in 1..Len(list) : list[i] = m

\* C4: an apply batch calls enable_mod exactly once for every enabled mod
\* and for no other; the enabled mods that load_order holds come first, in
\* load_order's order, the others after them in the order of the enabled
\* list.  With enabled = [B, A] and load_order = [A, C] the calls are A, B.
C4_ApplyOrder ==
    Applied =>
        LET called == last.res.called
            en == last.res.enabled
            lo == last.res.load_order
        IN  /\ \A m \in ModNames :
                  Cardinality({i \in 1..Len(called) : called[i] = m})
                      = IF InSeq(en, m) /\ m \in DOMAIN mods THEN 1 ELSE 0
            /\ \A i, j \in 1..Len(called) :
                  i < j =>
                      /\ (InSeq(lo, called[i]) /\ InSeq(lo, called[j]))
                            => Pos(lo, called[i]) < Pos(lo, called[j])
                      /\ ~InSeq(lo, called[i])
                            => /\ ~InSeq(lo, called[j])
                               /\ Pos(en, called[i]) < Pos(en, called[j])
            /\ (en = <<"B", "A">> /\ lo = <<"A", "C">>) => called = <<"A", "B">>

\* C4 happens: the batch of the example, enabled = [B, A] and load_order =
\* [A, C], came to its end after calling enable_mod for A and then B.
C4_Witness ==
    /\ Applied
    /\ last.res.enabled = <<"B", "A">> /\ last.res.load_order = <<"A", "C">>
    /\ last.res.called = <<"A", "B">>
    /\ \A i \in 1..2 : ~last.res.results[i].raised /\ last.res.results[i].w # {}

\* C5: while a batch is enabling mods, its restore point exists and holds,
\* for every key of the index of the enabled mods, every file the game
\* directory had at or below it before the batch, with the content of
\* then; and until the first enable_mod of the batch the live tree and the
\* backup store are as before the batch.
C5_RestorePointBeforeEnables ==
    ap.pc = "enabling" =>
        /\ ap.rp \in DOMAIN rps
        /\ ap.done = <<>> => (fs = ap.pre_fs /\ backups = ap.pre_bk)
        /\ \A t \in DOMAIN BuildModIndex(mods, Names(enabled), plat) :
              \A q \in DOMAIN ap.pre_fs :
                  (IsPrefix(target \o t, q) /\ ap.pre_fs[q].k = "file") =>
                      LET rel == SubSeq(q, Len(target) + 1, Len(q))
                      IN  /\ rel \in DOMAIN rps[ap.rp].tree
                          /\ rps[ap.rp].tree[rel] = ap.pre_fs[q]

\* C5 happens: a batch has called enable_mod, which overwrote a file of the
\* game directory that the restore point of the batch holds.
C5_Witness ==
    /\ ap.pc = "enabling" /\ ap.done # <<>>
    /\ \E q \in DOMAIN ap.pre_fs :
          /\ IsFile(ap.pre_fs, q) /\ IsFile(fs, q) /\ fs[q] # ap.pre_fs[q]
          /\ IsPrefix(target, q)
          /\ SubSeq(q, Len(target) + 1, Len(q)) \in DOMAIN rps[ap.rp].tree

\* C6: when find_conflicts over the enabled mods reports no conflict, no
\* two different mods of the batch write the same live file.
C6_NoConflictNoSharedWrite ==
    (Applied /\ DOMAIN FindConflicts(mods, Names(enabled), plat) = {}) =>
        \A i, j \in 1..Len(last.res.results) :
            last.res.results[i].mod # last.res.results[j].mod
                => last.res.results[i].w \cap last.res.results[j].w = {}

\* Mod m has an entry for target_subpath t, with no platform tag
DeclaresUntagged(m, t) ==
    \E i \in 1..Len(mods[m].files) :
        mods[m].files[i].target_subpath = t /\ mods[m].files[i].platform = ""

Declares(m, t) ==
    \E i \in 1..Len(mods[m].files) : mods[m].files[i].target_subpath = t

\* C7: find_conflicts reports every target_subpath that two of the mods it
\* is given both declare with no platform tag, with both of them and with
\* no mod it was not given; and every path it reports is declared by at
\* least two of the mods, none by one only.
C7_ConflictsOfSharedPaths ==
    (last.op = "conflicts" /\ ~last.raised) =>
        LET given == IndexMods(mods, last.res.names)
            conflicts == last.res.conflicts
        IN  /\ \A m1, m2 \in given : \A t \in {<<"a">>, <<"d">>, <<"d", "a">>} :
                  (m1 # m2 /\ DeclaresUntagged(m1, t) /\ DeclaresUntagged(m2, t))
                      => /\ t \in DOMAIN conflicts
                         /\ {m1, m2} \subseteq conflicts[t]
            /\ \A t \in DOMAIN conflicts :
                  /\ conflicts[t] \subseteq given
                  /\ Cardinality({m \in given : Declares(m, t)}) >= 2
                  /\ \A m \in conflicts[t] : Declares(m, t)

\* C7 happens: find_conflicts was given two mods that both declare a with
\* no tag, one of which also declares d, and reported a alone, with both.
C7_Witness ==
    /\ last.op = "conflicts" /\ ~last.raised
    /\ last.res.names = {"A", "B"}
    /\ DeclaresUntagged("A", <<"a">>) /\ DeclaresUntagged("B", <<"a">>)
    /\ Declares("A", <<"d">>) /\ ~Declares("B", <<"d">>)
    /\ DOMAIN last.res.conflicts = {<<"a">>}
    /\ last.res.conflicts[<<"a">>] = {"A", "B"}

\* enable_mod(m) returned twice in a row for the same mod, with no call
\* between the two
EnabledTwice ==
    /\ Enabled
    /\ last.prev.op = "enable" /\ last.prev.mod = last.mod /\ ~last.prev.raised

\* C11: after enable_mod twice for the same mod with no disable between,
\* the live tree is as the first call left it, and for every file the
\* second call wrote over a file left by the first, the second call put a
\* new backup of that file, with the content the first call wrote, in the
\* backup store.
C11_EnableTwice ==
    EnabledTwice =>
        /\ fs = last.pre_fs
        /\ \A i \in 1..Len(last.res.log) : \A p \in last.res.log[i].w :
              IsFile(last.pre_fs, p) =>
                  \E b \in DOMAIN backups \ DOMAIN last.pre_bk :
                      b.dg = Digest(p) /\ backups[b] = last.pre_fs[p]

---------------------------------------------------------------------------
(* The conflict manager *)

\* The order of Python's string comparison on the names of the model
NameRank(m) == CASE m = "A" -> 1 [] m = "B" -> 2 [] m = "C" -> 3 [] OTHER -> 0

\* order.index(m) if m in order else -1
OrderRank(order, m) ==
    IF \E i \in 1..Len(order) : order[i] = m
    THEN (CHOOSE i \in 1..Len(order) : order[i] = m) - 1
    ELSE 0 - 1

\* The winner on_conflicts shows for the mods ms of a contested path: the
\* last of the pairs (rank, name) once sorted.
Winner(order, ms) ==
    CHOOSE m \in ms :
        \A x \in ms :
            \/ OrderRank(order, x) < OrderRank(order, m)
            \/ OrderRank(order, x) = OrderRank(order, m) /\ NameRank(x) <= NameRank(m)

\* on_conflicts, up to the text of the conflict window: the conflicts of
\* the enabled mods (of every mod when none is enabled) and the winner shown
\* for each contested path.
OpConflicts ==
    /\ CanStart
    /\ ops' = ops + 1
    /\ UNCHANGED <<fs, mods, backups, rps, target, plat, now, ap>>
    /\ LET en  == ExistingMods(enabled, mods)
           lo  == ExistingMods(load_order, mods)
           nms == GateNames(en)
       IN  /\ enabled' = en
           /\ IF IndexRaises(mods, nms)
              THEN /\ last' = OpRecord("manager", "",
                                       [raised |-> TRUE, names |-> nms,
                                        conflicts |-> EmptyTree, winners |-> EmptyTree])
                   /\ UNCHANGED load_order
              ELSE LET conflicts == FindConflicts(mods, nms, plat)
                   IN  /\ last' = OpRecord("manager", "",
                                     [raised |-> FALSE, names |-> nms,
                                      conflicts |-> conflicts,
                                      winners |-> [t \in DOMAIN conflicts |->
                                                      Winner(lo, conflicts[t])]])
                       /\ load_order' = IF DOMAIN conflicts = {} THEN load_order ELSE lo

\* Three ui mods that all write a, one of them also d
ManagerManifest(m) ==
    Manifest(m, "ui", "", NoPath,
             IF m = "C" THEN <<Entry("f", <<"a">>, ""), Entry("pack", <<"d">>, "")>>
             ELSE <<Entry("f", <<"a">>, "")>>)

ManagerWorlds ==
    {World("windows", LiveBare, EmptyTree, GameDir, [m \in S |-> ManagerManifest(m)], en, lo) :
        S \in {{"A", "B", "C"}, {"A", "B"}}, en \in Lists(ModNames), lo \in Lists(ModNames)}

InitManager == \E w \in ManagerWorlds : InitWorld(w)

NextManager ==
    \/ OpConflicts
    \/ ApplyBegin(FALSE, FALSE)
    \/ ApplyEnable
    \/ ApplyEnd

SpecManager == InitManager /\ [][NextManager]_vars

\* on_conflicts showed its window for the enabled mods
ManagerShown ==
    /\ last.op = "manager" /\ ~last.raised
    /\ enabled # <<>> /\ DOMAIN last.res.winners # {}

\* C12: the winner the conflict manager shows for a contested path is,
\* among the mods contesting it, the one that comes last in the effective
\* apply order of the enabled mods.
C12_WinnerIsLastApplied ==
    ManagerShown =>
        LET ordered == ApplyOrder(enabled, load_order)
        IN  \A t \in DOMAIN last.res.winners :
                \A m \in last.res.conflicts[t] :
                    Pos(ordered, m) <= Pos(ordered, last.res.winners[t])

\* C12 on the live tree: after an apply batch, the file at a path two mods
\* contest holds the content of the mod on_conflicts shows as the winner.
C12_WinnerIsLive ==
    Applied =>
        \A t \in DOMAIN FindConflicts(mods, Names(enabled), plat) :
            IsFile(fs, target \o t) =>
                fs[target \o t].c
                    = Winner(load_order, FindConflicts(mods, Names(enabled), plat)[t])

\* C13: a rollback to a name that has no restore point leaves the live
\* tree and the restore-point store as they are, and, the target being
\* valid so that rollback_to_restore_point is called, raises "not found".
C13_RollbackMissingName ==
    [][\A name \in 1..MaxClock :
          (OpRollback(name) /\ name \notin DOMAIN rps)
          => /\ fs' = fs
             /\ rps' = rps
             /\ (target # NoPath /\ Exists(fs, target))
                   => (last'.raised /\ last'.res.why = "not found")]_vars

\* C13 happens: after an apply batch wrote to the live tree and made a
\* restore point, a rollback was asked for another name and raised.
C13_Witness ==
    /\ last.op = "rollback" /\ last.raised /\ last.res.why = "not found"
    /\ last.rp \notin DOMAIN rps /\ DOMAIN rps # {}
    /\ last.prev.op = "apply" /\ last.prev.rp # 0
    /\ fs # last.prev.pre_fs

---------------------------------------------------------------------------
(* Packs: directory sources of several files, and of none *)

\* The sources of a mod of these worlds: a file, a directory holding a file
\* and a sub-directory with another file, and an empty directory.
PackSources(c) ==
    [x \in {"f", "pack2", "empty"} |->
        IF x = "f" THEN [q \in {<<>>} |-> File(c, 2)]
        ELSE IF x = "empty" THEN [q \in {<<>>} |-> Dir]
        ELSE [q \in {<<>>, <<"a">>, <<"s">>, <<"s", "b">>} |->
                 IF q \in {<<>>, <<"s">>} THEN Dir ELSE File(c, 2)]]

PackEntries ==
    {Entry("f", <<"a">>, ""), Entry("f", <<"a">>, "mac"), Entry("pack2", <<"d">>, ""),
     Entry("pack2", <<"a">>, ""), Entry("empty", <<"e">>, ""), Entry("f", <<"d">>, "")}

PackWorlds ==
    {World("windows", f, EmptyTree, GameDir,
           [m \in {"A"} |-> [Manifest("A", "ui", "", NoPath, fl) EXCEPT !.src = PackSources("A")]],
           <<>>, <<"A">>) :
        f \in {LiveFull, LiveBare},
        fl \in UNION {[1..n -> PackEntries] : n \in 0..MaxFiles}}

InitPacks == \E w \in PackWorlds : InitWorld(w)

NextPacks ==
    \/ OpEnable("A")
    \/ OpDisable("A")

SpecPacks == InitPacks /\ [][NextPacks]_vars

\* The number of files of a source tree
NFiles(tree) == Cardinality({q \in DOMAIN tree : tree[q].k = "file"})

RECURSIVE SumFiles(_, _)
SumFiles(md, I) ==
    IF I = {} THEN 0
    ELSE LET i == CHOOSE x \in I : TRUE
         IN  NFiles(md.src[md.files[i].source]) + SumFiles(md, I \ {i})

\* Every entry of the call that the platform filter let through was valid
\* and copied
AllValid ==
    /\ Enabled
    /\ \A i \in 1..Len(last.res.log) : last.res.log[i].what \in {"skip", "write"}

\* C14: when every entry that passes the platform filter is valid and its
\* copy succeeds, enable_mod reports no error and wrote is the number of
\* files copied: one for each file entry and, for each directory entry, the
\* number of files in the source directory; so many files were written.
C14_WroteCountsFiles ==
    AllValid =>
        LET md == mods[last.mod]
            log == last.res.log
            copied == {i \in 1..Len(log) : log[i].what = "write"}
        IN  /\ last.res.errors = 0
            /\ last.res.wrote = SumFiles(md, copied)
            /\ \A i \in copied :
                  /\ log[i].n = NFiles(md.src[md.files[i].source])
                  /\ Cardinality(log[i].w) = log[i].n

\* C14 happens: enable_mod returned for a manifest with a file entry and a
\* directory entry of two files, all valid, and reported three files.
C14_Witness ==
    /\ AllValid
    /\ last.res.wrote = 3
    /\ \E i, j \in 1..Len(last.res.log) :
          /\ last.res.log[i].what = "write" /\ last.res.log[i].n = 1
          /\ last.res.log[j].what = "write" /\ last.res.log[j].n = 2

\* C15: enable_mod creates the install root it resolved, when missing,
\* only below the user-data root; when the root is the configured game
\* directory, or an install_path outside the user-data root, and is
\* missing, the call raises and leaves the live tree and the backup store
\* as they were.
C15_RootCreatedOnlyUnderUserDir ==
    (last.op = "enable" /\ last.mod \in DOMAIN mods /\ ~ManifestRaises(mods[last.mod])) =>
        LET root == EnableRoute(last.pre_fs, target, last.mod, mods[last.mod]).base
        IN  (root # NoPath /\ ~Exists(last.pre_fs, root)) =>
                /\ Exists(fs, root) => IsPrefix(UserDir, root)
                /\ ~IsPrefix(UserDir, root) =>
                      /\ last.raised /\ last.res.why = "no target"
                      /\ fs = last.pre_fs /\ backups = last.pre_bk

\* C15 happens: enable_mod raised for a ui mod whose configured game
\* directory does not exist.
C15_Witness ==
    /\ last.op = "enable" /\ last.raised /\ last.res.why = "no target"
    /\ target # NoPath /\ ~Exists(fs, target)
    /\ mods[last.mod].install_path = NoPath
    /\ ModType(mods[last.mod]) = "ui"
    /\ mods[last.mod].files # <<>>

\* The root claim C16 gives a manifest that is not of type graphics: the
\* install_path when there is one, else the game directory for ui and
\* bundle, the tactics folder of the user-data root for tactics, and the
\* user-data root for the rest.
RouteOfClaim(md) ==
    IF md.install_path # NoPath THEN md.install_path
    ELSE IF md.type \in {"ui", "UI", "bundle"} THEN target
    ELSE IF md.type \in {"tactics", "Tactics"} THEN <<"U", "tactics">>
    ELSE <<"U">>

\* C16: enable_mod writes every entry at its target_subpath below the
\* install_path of the manifest when it has one, whatever the type; and
\* else below the configured game directory for ui and bundle, the tactics
\* folder of the user-data root for tactics, the user-data root itself for
\* any type other than those and graphics.
C16_RoutingPriority ==
    (Enabled /\ (mods[last.mod].type # "graphics" \/ mods[last.mod].install_path # NoPath)) =>
        LET md == mods[last.mod]
        IN  \A i \in 1..Len(last.res.log) : \A p \in last.res.log[i].w :
                IsPrefix(RouteOfClaim(md) \o md.files[i].target_subpath, p)

\* C16 happens: enable_mod wrote the file of a tactics mod below the
\* install_path of its manifest, which lies in the game directory.
C16_Witness ==
    /\ Enabled /\ last.res.wrote = 1
    /\ mods[last.mod].type = "Tactics"
    /\ mods[last.mod].install_path = <<"G", "d">>
    /\ IsFile(fs, <<"G", "d", "a">>) /\ fs[<<"G", "d", "a">>].c = last.mod

\* The folder claim C17 gives a graphics mod of display name nm
\* (lowercased), below the graphics folder
SubOfClaim(nm) ==
    IF Contains(nm, "kit") THEN <<"kits">>
    ELSE IF Contains(nm, "face") \/ Contains(nm, "portrait") THEN <<"faces">>
    ELSE IF Contains(nm, "logo") \/ Contains(nm, "badge") THEN <<"logos">>
    ELSE <<>>

\* C17: enable_mod writes the entries of a graphics mod with no
\* install_path below graphics/kits of the user-data root when its display
\* name contains kit, below graphics/faces when it contains face or
\* portrait, below graphics/logos when it contains logo or badge, and
\* below graphics itself otherwise.
C17_GraphicsSubRouting ==
    (Enabled /\ mods[last.mod].type = "graphics" /\ mods[last.mod].install_path = NoPath) =>
        LET md == mods[last.mod]
            root == <<"U", "graphics">> \o SubOfClaim(Lower(ModName(last.mod, md)))
        IN  \A i \in 1..Len(last.res.log) : \A p \in last.res.log[i].w :
                IsPrefix(root \o md.files[i].target_subpath, p)

\* C18: find_conflicts returns whatever the manifests of the mods it is
\* given: a mod whose manifest is absent or malformed is left out, and the
\* index holds the keys of all the others.
C18_IndexSkipsBadMods ==
    last.op = "conflicts" =>
        /\ ~last.raised
        /\ \A m \in last.res.names \cap DOMAIN mods :
              mods[m].mf = "ok" =>
                  \A t \in ModKeys(mods[m], plat) :
                      t \in DOMAIN last.res.idx /\ m \in last.res.idx[t]
        /\ \A t \in DOMAIN last.res.idx : \A m \in last.res.idx[t] : mods[m].mf = "ok"

\* The backups the entries of the last enable_mod took
TakenBackups == {i \in 1..Len(last.res.log) : last.res.log[i].b # NoBackup}

\* C19: a call of enable_mod leaves every backup the store held as it was;
\* each call of backup_original in it, one for each entry whose target is a
\* file, adds one backup of its own, named by the basename and the digest
\* of the target's path, with the least suffix .N, from 1 on, when the
\* plain name is taken; the first holds the content the target had; an
\* entry whose target is no file adds none.
C19_BackupsOnlyAdded ==
    last.op = "enable" =>
        LET log == last.res.log
            md  == mods[last.mod]
            base == EnableRoute(last.pre_fs, target, last.mod, md).base
        IN  /\ \A b \in DOMAIN last.pre_bk :
                  b \in DOMAIN backups /\ backups[b] = last.pre_bk[b]
            /\ Cardinality(DOMAIN backups \ DOMAIN last.pre_bk) = Cardinality(TakenBackups)
            /\ Cardinality(TakenBackups) = last.res.backed_up
            /\ \A i \in TakenBackups :
                  LET p == ResolveTarget(base, md.files[i].target_subpath)
                      b == log[i].b
                  IN  /\ b \in DOMAIN backups \ DOMAIN last.pre_bk
                      /\ b.base = BaseName(p) /\ b.dg = Digest(p)
                      /\ \A n \in 0..(b.n - 1) :
                            [base |-> b.base, dg |-> b.dg, n |-> n] \in DOMAIN backups
                      /\ \A j \in TakenBackups : j # i => log[j].b # b
                      /\ (\A j \in 1..(i - 1) : log[j].w = {})
                            => IsFile(last.pre_fs, p) /\ backups[b] = last.pre_fs[p]
            /\ \A i \in 1..Len(log) :
                  (log[i].what = "write"
                      /\ ~IsFile(last.pre_fs, ResolveTarget(base, md.files[i].target_subpath))
                      /\ \A j \in 1..(i - 1) : log[j].w = {})
                  => log[i].b = NoBackup

\* C19 happens: enable_mod backed up a file whose plain backup name was
\* taken by an earlier backup, under a name with a suffix.
C19_Witness ==
    /\ Enabled
    /\ DOMAIN last.pre_bk # {}
    /\ \E i \in TakenBackups :
          /\ last.res.log[i].b.n > 0
          /\ backups[last.res.log[i].b] # backups[[last.res.log[i].b EXCEPT !.n = 0]]

\* The enabled mods contest a path: find_conflicts over them returns and
\* reports one
Contested(en) ==
    /\ ~IndexRaises(mods, GateNames(en))
    /\ DOMAIN FindConflicts(mods, GateNames(en), plat) # {}

\* C20: on_apply_order, when the index of the enabled mods has a path with
\* more than one mod, creates no restore point, enables no mod and leaves
\* the live tree and the backup store alone; a batch it starts has no such
\* path, has its restore point, and has "ordered" to enable, nothing done
\* yet.
C20_ApplyGated ==
    [][\A running \in BOOLEAN :
          ApplyBegin(TRUE, running) =>
              /\ Contested(ExistingMods(enabled, mods))
                    => /\ fs' = fs /\ backups' = backups /\ rps' = rps
                       /\ ap' = ap /\ ap.pc = "idle"
                       /\ last'.op = "apply" /\ last'.res.called = <<>>
              /\ ap'.pc = "enabling"
                    => /\ ~Contested(ExistingMods(enabled, mods))
                       /\ ap'.rp \in DOMAIN rps'
                       /\ ap'.done = <<>>
                       /\ ap'.queue = ApplyOrder(enabled', load_order')
                       /\ fs' = fs]_vars

\* C20 happens: on_apply_order found two enabled mods contesting a path and
\* returned with no restore point made and the live tree as it was.
C20_Witness ==
    /\ last.op = "apply" /\ last.res.why = "conflicts"
    /\ Len(enabled) = 2 /\ Contested(enabled)
    /\ rps = EmptyTree /\ fs = last.pre_fs /\ ap.pc = "idle"

\* rollback_to_restore_point returned normally, and nothing has run since
RolledBack ==
    /\ last.op = "rollback" /\ ~last.raised /\ last.res.why = ""
    /\ ap.pc = "idle"

\* The files of tree f at or below a path of the index of the enabled mods,
\* the keys taken below the root rollback was given
ManagedFiles(f) ==
    {q \in DOMAIN f :
        /\ f[q].k = "file"
        /\ \E mp \in DOMAIN BuildModIndex(mods, Names(enabled), plat) :
              IsPrefix(target \o mp, q)}

\* C21: rollback has two phases.  Between them no file has been copied yet
\* (every live file is one of before, unchanged), the files gone are the
\* ones reported deleted, and no file at or below a managed path is left
\* without a file at the same relative path in the snapshot; the second
\* phase removes no file; and after the rollback returned, every live file
\* at or below a managed path has a file at its relative path in the
\* snapshot, so that a file a mod added after the snapshot is gone.
C21_TwoPhaseOrphanComplete ==
    RolledBack =>
        LET tree == rps[last.rp].tree
            mid  == last.res.mid
            rel(q) == SubSeq(q, Len(target) + 1, Len(q))
        IN  /\ \A q \in DOMAIN mid :
                  mid[q].k = "file" => (IsFile(last.pre_fs, q) /\ mid[q] = last.pre_fs[q])
            /\ last.res.deleted
                  = {q \in DOMAIN last.pre_fs : last.pre_fs[q].k = "file" /\ q \notin DOMAIN mid}
            /\ \A q \in ManagedFiles(mid) : rel(q) \in RestoreFiles(tree)
            /\ \A q \in DOMAIN mid : mid[q].k = "file" => IsFile(fs, q)
            /\ \A q \in ManagedFiles(fs) : rel(q) \in RestoreFiles(tree)

\* C21 happens: an apply batch added a file below a managed directory, and
\* the rollback to the restore point of the batch deleted it in its first
\* phase.
C21_Witness ==
    /\ RolledBack
    /\ last.prev.op = "apply" /\ last.prev.rp = last.rp
    /\ \E q \in last.res.deleted :
          /\ q \notin DOMAIN last.prev.pre_fs
          /\ q \notin DOMAIN fs
          /\ Len(q) > Len(target) + 1

---------------------------------------------------------------------------
(* The working set: import, mark and unmark, reorder, remove *)

\* list.remove(m): the list without the first m
ListRemove(list, m) ==
    IF ~InSeq(list, m) THEN list
    ELSE SubSeq(list, 1, Pos(list, m) - 1) \o SubSeq(list, Pos(list, m) + 1, Len(list))

\* The list with the entries at i and j exchanged
Swap(list, i, j) ==
    [k \in 1..Len(list) |-> IF k = i THEN list[j] ELSE IF k = j THEN list[i] ELSE list[k]]

\* remove_mod(m); rmtree is whether shutil.rmtree got the directory deleted.
\* The lists are saved before the directory is deleted.
OpRemove(m, rmtree) ==
    /\ CanStart
    /\ ops' = ops + 1
    /\ UNCHANGED <<fs, backups, rps, target, plat, now, ap>>
    /\ IF m \notin DOMAIN mods
       THEN /\ last' = OpRecord("remove", m, [raised |-> TRUE, why |-> "not found",
                                              en |-> <<>>, lo |-> <<>>])
            /\ UNCHANGED <<mods, enabled, load_order>>
       ELSE LET en == ExistingMods(enabled, mods)
                lo == ExistingMods(load_order, mods)
            IN  /\ enabled' = ListRemove(en, m)
                /\ load_order' = ListRemove(lo, m)
                /\ mods' = IF rmtree THEN [x \in DOMAIN mods \ {m} |-> mods[x]] ELSE mods
                /\ last' = OpRecord("remove", m,
                                    [raised |-> ~rmtree, why |-> IF rmtree THEN "" ELSE "rmtree",
                                     en |-> en, lo |-> lo])

\* on_enable_selected with m selected in the list of the mod store
OpMark(m) ==
    /\ CanStart
    /\ m \in DOMAIN mods
    /\ ops' = ops + 1
    /\ UNCHANGED <<fs, mods, backups, rps, target, load_order, plat, now, ap>>
    /\ LET en == ExistingMods(enabled, mods)
       IN  /\ enabled' = IF InSeq(en, m) THEN en ELSE Append(en, m)
           /\ last' = OpRecord("mark", m, [raised |-> FALSE, why |-> "", en |-> en, lo |-> <<>>])

\* on_disable_selected with m selected
OpUnmark(m) ==
    /\ CanStart
    /\ m \in DOMAIN mods
    /\ ops' = ops + 1
    /\ UNCHANGED <<fs, mods, backups, rps, target, load_order, plat, now, ap>>
    /\ LET en == ExistingMods(enabled, mods)
       IN  /\ enabled' = SelectSeq(en, LAMBDA x : x # m)
           /\ last' = OpRecord("unmark", m, [raised |-> FALSE, why |-> "", en |-> en, lo |-> <<>>])

\* on_move_up (up = TRUE) and on_move_down with m selected: a name the order
\* lacks is appended first, and the order is saved only when two entries
\* were exchanged.
OpMove(m, up) ==
    /\ CanStart
    /\ m \in DOMAIN mods
    /\ ops' = ops + 1
    /\ UNCHANGED <<fs, mods, backups, rps, target, enabled, plat, now, ap>>
    /\ LET lo == ExistingMods(load_order, mods)
           order == IF InSeq(lo, m) THEN lo ELSE Append(lo, m)
           i == Pos(order, m)
       IN  /\ load_order' = IF up /\ i > 1 THEN Swap(order, i - 1, i)
                            ELSE IF ~up /\ i < Len(order) THEN Swap(order, i, i + 1)
                            ELSE lo
           /\ last' = OpRecord(IF up THEN "move up" ELSE "move down", m,
                               [raised |-> FALSE, why |-> "", en |-> <<>>, lo |-> lo])

\* on_import_mod of a folder whose manifest names the mod m:
\* install_mod_from_folder puts it in the mod store, in the place of a mod
\* of that name, and the name is appended to the load order when not in it.
OpImport(m, md) ==
    /\ CanStart
    /\ ops' = ops + 1
    /\ UNCHANGED <<fs, backups, rps, target, enabled, plat, now, ap>>
    /\ mods' = [x \in DOMAIN mods \cup {m} |-> IF x = m THEN md ELSE mods[x]]
    /\ LET lo == ExistingMods(load_order, mods')
       IN  /\ load_order' = IF InSeq(lo, m) THEN lo ELSE Append(lo, m)
           /\ last' = OpRecord("import", m, [raised |-> FALSE, why |-> "", en |-> <<>>, lo |-> lo])

\* The enabled lists and load orders the working-set worlds start from;
\* with the store {A, B} the name C is one whose directory is gone.
WorkLists ==
    {<<>>, <<"A">>, <<"C">>, <<"A", "B">>, <<"B", "A">>, <<"C", "A">>,
     <<"A", "B", "C">>, <<"C", "B", "A">>}

WorkWorlds ==
    {World("windows", LiveBare, EmptyTree, GameDir, [m \in S |-> OrderManifest(m)], en, lo) :
        S \in {{"A", "B", "C"}, {"A", "B"}}, en \in WorkLists, lo \in WorkLists}

InitWork == \E w \in WorkWorlds : InitWorld(w)

NextWork ==
    \/ \E m \in {"A", "C"}, rmtree \in BOOLEAN : OpRemove(m, rmtree)
    \/ \E m \in {"A", "C"} : OpMark(m)
    \/ \E m \in {"A", "C"} : OpUnmark(m)
    \/ \E m \in {"A", "C"}, up \in BOOLEAN : OpMove(m, up)
    \/ \E m \in {"A", "C"} : OpImport(m, [OrderManifest(m) EXCEPT !.name = m])

SpecWork == InitWork /\ [][NextWork]_vars

\* The operations of the working set
WorkOps == {"remove", "mark", "unmark", "move up", "move down", "import"}

\* C22: after remove_mod(m) returned normally, m is in neither the enabled
\* list nor the load order and has no directory in the mod store; and
\* whatever import, mark, unmark, reorder and remove operations ran, the
\* lists get_enabled_mods and get_load_order return, and the ones they
\* returned to the last of these operations (remove_mod reads them while
\* the mod it removes is still there), hold only names of mods of the store.
C22_WorkingSetConsistent ==
    /\ (last.op = "remove" /\ ~last.raised) =>
          /\ ~InSeq(enabled, last.mod)
          /\ ~InSeq(load_order, last.mod)
          /\ last.mod \notin DOMAIN mods
    /\ Names(ExistingMods(enabled, mods)) \subseteq DOMAIN mods
    /\ Names(ExistingMods(load_order, mods)) \subseteq DOMAIN mods
    /\ last.op \in WorkOps =>
          Names(last.res.en) \cup Names(last.res.lo) \subseteq DOMAIN mods \cup {last.mod}

\* C22 happens: a mod that the load order held was marked enabled and then
\* removed, another mod staying enabled.
C22_Witness ==
    /\ last.op = "remove" /\ ~last.raised
    /\ InSeq(last.res.en, last.mod) /\ InSeq(last.res.lo, last.mod)
    /\ last.prev.op = "mark" /\ last.prev.mod = last.mod
    /\ DOMAIN mods = {"B"}
    /\ enabled = <<"B">>

\* C23: when disable_mod(m) follows enable_mod(m), the path it handles for
\* each entry is the entry's target_subpath below the install root that
\* enable_mod resolved for the mod.
C23_SameInstallRoot ==
    DisabledAfterEnable =>
        LET md == mods[last.mod]
            root == EnableRoute(last.prev.pre_fs, target, last.mod, md).base
        IN  \A i \in 1..Len(last.res.log) :
                last.res.log[i].p = ResolveTarget(root, md.files[i].target_subpath)

\* C24: every backup disable_mod copies into a destination was taken from
\* that destination: it bears the destination's file name and the digest of
\* its absolute path.
C24_RestoresOwnBackup ==
    (last.op = "disable" /\ ~last.raised) =>
        \A i \in 1..Len(last.res.log) :
            last.res.log[i].what = "restore" =>
                /\ last.res.log[i].b.base = BaseName(last.res.log[i].p)
                /\ last.res.log[i].b.dg = Digest(last.res.log[i].p)

\* C25: disable_mod leaves the live file at the target of an entry tagged
\* for the platform that is not running as it is, unless an entry that
\* enable_mod would write on the running platform has the same target.
C25_DisableKeepsOtherPlatform ==
    (last.op = "disable" /\ ~last.raised) =>
        LET files == mods[last.mod].files
        IN  \A i \in 1..Len(last.res.log) :
                (/\ OtherPlatform(files[i], plat)
                 /\ files[i].target_subpath # <<>>
                 /\ \A j \in 1..Len(files) :
                       files[j].target_subpath = files[i].target_subpath
                           => EnableSkips(files[j], plat))
                => (IsFile(last.pre_fs, last.res.log[i].p)
                       => /\ IsFile(fs, last.res.log[i].p)
                          /\ fs[last.res.log[i].p] = last.pre_fs[last.res.log[i].p])

\* C26: for every mod an apply batch enabled, the root create_restore_point
\* took the snapshot from, which is the root rollback restores into (the
\* configured game directory), is the install root enable_mod resolved for
\* the mod, and every file the mod wrote lies below it.
C26_RestorePointCoversWrites ==
    Applied =>
        \A i \in 1..Len(last.res.results) :
            LET m == last.res.results[i].mod
            IN  ~last.res.results[i].raised =>
                   /\ EnableRoute(last.pre_fs, target, m, mods[m]).base = target
                   /\ \A p \in last.res.results[i].w : IsPrefix(target, p)

\* The file at q is not the same in trees f and g: created, changed or
\* deleted
FileDiffers(f, g, q) ==
    IF IsFile(f, q) THEN ~IsFile(g, q) \/ g[q] # f[q] ELSE IsFile(g, q)

C28_OwnRestorePoint ==
    [][/\ (ap.pc = "idle" /\ ap'.pc = "enabling") => ap'.rp \notin DOMAIN rps
       /\ \A x \in DOMAIN rps \cap DOMAIN rps' : rps'[x].tree = rps[x].tree]_vars

\* C29: enable_mod and the index agree on the entries of a mod.  An entry
\* that passes the platform filter of enable_mod, its source and
\* target_subpath present, has its target_subpath among the keys the index
\* holds for the mod; and every key the index holds for the mod is the
\* target_subpath of an entry that enable_mod does not skip for platform.
C29_IndexAgreesWithEnable ==
    Enabled =>
        LET md == mods[last.mod]
            idx == BuildModIndex(mods, {last.mod}, plat)
        IN  /\ \A i \in 1..Len(md.files) :
                  (last.res.log[i].what # "skip"
                      /\ md.files[i].source # "" /\ md.files[i].target_subpath # <<>>)
                  => md.files[i].target_subpath \in DOMAIN idx
            /\ \A t \in DOMAIN idx :
                  \E i \in 1..Len(md.files) :
                      md.files[i].target_subpath = t /\ last.res.log[i].what # "skip"

\* C30: an apply batch goes through its whole order whatever enable_mod
\* raises: enable_mod is called for every mod of the effective order, the
\* batch ends normally with its restore point, every mod after one that
\* raised is enabled like any other, and what the mods wrote is live when
\* the batch has ended, nothing being rolled back.
C30_FailingModDoesNotStopBatch ==
    Applied =>
        LET res == last.res.results
        IN  /\ ~last.raised
            /\ last.res.called
                  = ApplyOrder(ExistingMods(last.res.enabled, mods),
                               ExistingMods(last.res.load_order, mods))
            /\ Len(res) = Len(last.res.called)
            /\ last.rp \in DOMAIN rps
            /\ \A i \in 1..Len(res) :
                  /\ res[i].mod = last.res.called[i]
                  /\ res[i].raised = (ManifestRaises(mods[res[i].mod])
                                         \/ mods[res[i].mod].files = <<>>)
                  /\ ~res[i].raised =>
                        /\ res[i].w = {target \o <<res[i].mod>>}
                        /\ \A p \in res[i].w : IsFile(fs, p) /\ fs[p].c = res[i].mod

\* C30 happens: enable_mod raised for the first mod of a batch of three,
\* and the two mods after it were enabled and their files are live.
C30_Witness ==
    /\ Applied
    /\ Len(last.res.results) = 3
    /\ last.res.results[1].raised
    /\ \A i \in 2..3 :
          /\ ~last.res.results[i].raised
          /\ \A p \in last.res.results[i].w : IsFile(fs, p)
          /\ last.res.results[i].w # {}

====
